---- MODULE Spec2Model ----
(***************************************************************************)
(* frippy: the Bot's plugin registry (ThreadedPlugins), the dispatch of    *)
(* one inbound message (process_msg: execute_plugins, then                 *)
(* handle_command) and the worker threads both spawn.                      *)
(*                                                                         *)
(* Strings are sequences of one-character strings, so that to_lowercase,   *)
(* starts_with, replace, the whitespace split and the regex matches are    *)
(* computed, not assumed.                                                  *)
(***************************************************************************)
EXTENDS Integers, Sequences, FiniteSets, TLC

\* ---------------------------------------------------------------- bounds

\* Plugin instances the host may register.
NumPlugins == 3
\* Inbound messages the reactor hands to process_msg.
MaxMsgs == 2
\* Calls the host makes on its Bot after Bot::connect.
MaxLateOps == 1
\* How many threads run Factoids::add at once.
NumAdders == 3

\* ---------------------------------------------------------------- strings

\* char::to_lowercase on the letters the model uses.
LowerChar(c) ==
    CASE c = "A" -> "a"
      [] c = "B" -> "b"
      [] c = "C" -> "c"
      [] c = "T" -> "t"
      [] c = "R" -> "r"
      [] c = "U" -> "u"
      [] c = "E" -> "e"
      [] OTHER -> c

\* str::to_lowercase, as used in ThreadedPlugins::add, remove, handle_command.
ToLowercase(s) == [i \in 1..Len(s) |-> LowerChar(s[i])]

\* str::starts_with
StartsWith(s, p) ==
    /\ Len(p) <= Len(s)
    /\ SubSeq(s, 1, Len(p)) = p

IsWhitespace(c) == c = " "

\* The length of the run of non-whitespace characters s starts with.
RECURSIVE TokenLen(_)
TokenLen(s) ==
    IF s = << >> \/ IsWhitespace(Head(s)) THEN 0 ELSE 1 + TokenLen(Tail(s))

\* Split on runs of whitespace: the tokens of s, in order, none empty.
RECURSIVE SplitWhitespace(_)
SplitWhitespace(s) ==
    IF s = << >> THEN << >>
    ELSE IF IsWhitespace(Head(s)) THEN SplitWhitespace(Tail(s))
    ELSE LET n == TokenLen(s)
         IN  <<SubSeq(s, 1, n)>> \o SplitWhitespace(SubSeq(s, n + 1, Len(s)))

\* ---------------------------------------------------------------- plugins

Plugins == 1..NumPlugins

\* Plugin::name() of each instance: "a", "A", "b", "B", "a", ...
\* Instances 1 and 2 differ only in case.
PluginName(p) ==
    LET letters == <<"a", "A", "b", "B">>
    IN  <<letters[((p - 1) % 4) + 1]>>

\* Names the host may pass to remove_plugin: every case variant of a plugin
\* name, and a name no plugin has.
RemoveNames == {<<"a">>, <<"A">>, <<"b">>, <<"B">>, <<"c">>}

\* HashMap::new()
EmptyMap == [k \in {} |-> 0]

\* HashMap::insert: the entry under key is created or replaced.
Insert(map, key, value) ==
    [k \in DOMAIN map \cup {key} |-> IF k = key THEN value ELSE map[k]]

\* HashMap::remove: the map without key.
RemoveKey(map, key) == [k \in DOMAIN map \ {key} |-> map[k]]

\* The plausible slip: add that keys the entry by the name as given.
addUnfolded(plugins, plugin) ==
    Insert(plugins, PluginName(plugin), plugin)

\* ThreadedPlugins::add: the plugin is stored under its lowercased name.
add(plugins, plugin) ==
    LET name == ToLowercase(PluginName(plugin))
    IN  Insert(plugins, name, plugin)

\* The plausible slip: remove that reports Some(()) whatever it found.
removeAlwaysSome(plugins, name) ==
    [plugins |-> RemoveKey(plugins, ToLowercase(name)), ret |-> "Some"]

\* The plausible slip: remove that looks the name up as given.
removeUnfolded(plugins, name) ==
    [plugins |-> RemoveKey(plugins, name),
     ret     |-> IF name \in DOMAIN plugins THEN "Some" ELSE "None"]

\* ThreadedPlugins::remove: the entry under the lowercased name is removed;
\* Some(()) when there was one, None otherwise.
remove(plugins, name) ==
    LET key == ToLowercase(name)
    IN  [plugins |-> RemoveKey(plugins, key),
         ret     |-> IF key \in DOMAIN plugins THEN "Some" ELSE "None"]

\* ---------------------------------------------------------------- messages

\* Bot::new(cmd_prefix): the prefix of the documented examples.
prefix == <<".">>

\* The inbound messages the reactor may deliver. id is set on delivery and
\* stands for the identity of the Arc<Message> allocation.
Contents == {
    <<".", "A", " ", "x">>,   \* ".A x": a command for the plugin registered as "a"
    <<".">> }                  \* the bare prefix
\* Message.prefix of a message from the user n: "n!n@h".
UserPrefix == <<"n", "!", "n", "@", "h">>
Messages ==
    {[id |-> 0, kind |-> "PRIVMSG", prefix |-> UserPrefix, target |-> "#c", content |-> c]
        : c \in Contents}
    \cup {[id |-> 0, kind |-> "JOIN", prefix |-> UserPrefix, target |-> "#c",
           content |-> << >>]}

NoMessage == [id |-> 0, kind |-> "NONE", prefix |-> << >>, target |-> "", content |-> << >>]

\* Message::source_nickname of a prefixed message: the prefix up to its "!".
RECURSIVE UpTo(_, _)
UpTo(s, c) ==
    IF s = << >> \/ Head(s) = c THEN << >> ELSE <<Head(s)>> \o UpTo(Tail(s), c)
source_nickname(msg) == UpTo(msg.prefix, "!")

\* A PluginCommand, and the absent one a worker of execute_threaded carries.
NoCommand == [tokens |-> << >>, source |-> << >>, target |-> ""]

\* PluginCommand::try_from(prefix, message): Some (a one-element sequence)
\* when the message is a PRIVMSG whose text begins with the prefix; the
\* tokens are the rest of the text split on runs of whitespace.
try_from(pre, msg) ==
    IF msg.kind = "PRIVMSG" /\ StartsWith(msg.content, pre)
    THEN <<[tokens |-> SplitWhitespace(SubSeq(msg.content, Len(pre) + 1, Len(msg.content))),
            source |-> source_nickname(msg),
            target |-> msg.target]>>
    ELSE << >>

\* ---------------------------------------------------------------- bridge

EndsWith(s, p) ==
    /\ Len(p) <= Len(s)
    /\ SubSeq(s, Len(s) - Len(p) + 1, Len(s)) = p

\* The first position of the character c in s, 0 when s has none.
RECURSIVE IndexOf(_, _)
IndexOf(s, c) ==
    IF s = << >> THEN 0
    ELSE IF Head(s) = c THEN 1
    ELSE LET i == IndexOf(Tail(s), c) IN IF i = 0 THEN 0 ELSE i + 1

\* str::replace(from, to): every non-overlapping occurrence of from, found
\* left to right, becomes to; an empty from matches before every character
\* and at the end.
RECURSIVE Replace(_, _, _)
Replace(s, from, to) ==
    IF s = << >> THEN (IF from = << >> THEN to ELSE << >>)
    ELSE IF from = << >> THEN to \o <<Head(s)>> \o Replace(Tail(s), from, to)
    ELSE IF StartsWith(s, from) THEN to \o Replace(SubSeq(s, Len(from) + 1, Len(s)), from, to)
    ELSE <<Head(s)>> \o Replace(Tail(s), from, to)

\* The configured patterns, by shape:
\*   "prefix": ^a                                 (no group)
\*   "one":    ^a(?P<group>.+)b$                  (group "" is an unnamed group)
\*   "two":    ^(?P<username>[^a]+)a(?P<message>.*)$   (a is one character)
\* Each shape has at most one way to match a text, so the captures are
\* computed from the text.
Regex(shape, a, b, group) == [shape |-> shape, a |-> a, b |-> b, group |-> group]

\* Regex::captures(text): whether the pattern matched, and the named groups
\* username and message as options (<< >> is None, <<s>> is Some(s)).
NoCaps == [matched |-> FALSE, username |-> << >>, message |-> << >>]
captures(re, text) ==
    CASE re.shape = "prefix" ->
            [matched |-> StartsWith(text, re.a), username |-> << >>, message |-> << >>]
      [] re.shape = "one" ->
            LET ok  == /\ Len(text) >= Len(re.a) + Len(re.b) + 1
                       /\ StartsWith(text, re.a)
                       /\ EndsWith(text, re.b)
                mid == SubSeq(text, Len(re.a) + 1, Len(text) - Len(re.b))
            IN  [matched  |-> ok,
                 username |-> IF ok /\ re.group = "username" THEN <<mid>> ELSE << >>,
                 message  |-> IF ok /\ re.group = "message" THEN <<mid>> ELSE << >>]
      [] re.shape = "two" ->
            LET i  == IndexOf(text, re.a[1])
                ok == i >= 2
            IN  [matched  |-> ok,
                 username |-> IF ok THEN <<SubSeq(text, 1, i - 1)>> ELSE << >>,
                 message  |-> IF ok THEN <<SubSeq(text, i + 1, Len(text))>> ELSE << >>]

\* Regex::is_match(text).
is_match(re, text) == captures(re, text).matched

\* The character standing for U+200B (zero width space).
ZWS == "Z"

\* client.config().options: None (<< >>) or Some(map) (<<o>>), the map as a
\* record of options, each absent (<< >>) or present (<<value>>).
NoOptions == << >>
Options(relay, name, ignore, content, zws) ==
    <<[bridge_relay_format |-> relay, bridge_name |-> name,
       bridge_ignore_regex |-> ignore, bridge_regex |-> content,
       bridge_remove_zws |-> zws]>>

\* The bridge stage runs for a PRIVMSG of a session that has options.
bridge_active_any_kind(opts, msg) == opts # NoOptions
bridge_active(opts, msg) == msg.kind = "PRIVMSG" /\ opts # NoOptions

\* bridge_user after the relay format was tried on the sender's nick.
relay_username(o, nick) ==
    IF o.bridge_relay_format # << >>
    THEN captures(o.bridge_relay_format[1], nick).username
    ELSE << >>

\* The test that makes a message a bridge message.
is_bridge_on_match(o, nick) ==
    \/ o.bridge_relay_format # << >> /\ is_match(o.bridge_relay_format[1], nick)
    \/ <<nick>> = o.bridge_name
is_bridge_always(o, nick) == TRUE
is_bridge(o, nick) ==
    relay_username(o, nick) # << >> \/ <<nick>> = o.bridge_name

\* A bridge message the ignore pattern matches is dropped.
ignored_never(o, nick, content) == FALSE
ignored(o, nick, content) ==
    /\ is_bridge(o, nick)
    /\ o.bridge_ignore_regex # << >>
    /\ is_match(o.bridge_ignore_regex[1], content)

\* The captures of the content pattern on a bridge message.
content_captures(o, nick, content) ==
    IF is_bridge(o, nick) /\ o.bridge_regex # << >>
    THEN captures(o.bridge_regex[1], content)
    ELSE NoCaps

\* bridge_user after the content pattern: the relay format's user stays,
\* the content's username fills in when there was none.
derive_user_content_first(o, nick, content) ==
    IF content_captures(o, nick, content).username # << >>
    THEN content_captures(o, nick, content).username
    ELSE relay_username(o, nick)
derive_user(o, nick, content) ==
    IF relay_username(o, nick) # << >>
    THEN relay_username(o, nick)
    ELSE content_captures(o, nick, content).username

\* bridge_message: the content pattern's message group.
derive_message_never(o, nick, content) == << >>
derive_message(o, nick, content) == content_captures(o, nick, content).message

\* bridge_remove_zws is on when its value lowercases to "true".
zws_enabled_exact(o) == o.bridge_remove_zws = <<<<"t", "r", "u", "e">>>>
zws_enabled(o) ==
    /\ o.bridge_remove_zws # << >>
    /\ ToLowercase(o.bridge_remove_zws[1]) = <<"t", "r", "u", "e">>

\* The bridge user that is substituted into the prefix.
substituted_user(o, user) ==
    IF zws_enabled(o) THEN Replace(user, <<ZWS>>, << >>) ELSE user

\* The plausible slip: only the first occurrence of the nick, the nickname
\* at the head of the prefix, changes.
RECURSIVE rewrite_prefix_first(_, _, _)
rewrite_prefix_first(pre, nick, user) ==
    IF pre = << >> \/ nick = << >> THEN pre
    ELSE IF StartsWith(pre, nick) THEN user \o SubSeq(pre, Len(nick) + 1, Len(pre))
    ELSE <<Head(pre)>> \o rewrite_prefix_first(Tail(pre), nick, user)

\* message.prefix.map(|s| s.replace(&nick, &bridge_user)).
rewrite_prefix(pre, nick, user) == Replace(pre, nick, user)

\* The bridge stage of process_msg on the message msg: whether it returned
\* early, the message it hands on, and its locals bridge_user (as it is
\* substituted) and bridge_message.
bridge(opts, msg) ==
    IF ~bridge_active(opts, msg)
    THEN [dropped |-> FALSE, message |-> msg, user |-> << >>, text |-> << >>]
    ELSE LET o    == opts[1]
             nick == source_nickname(msg)
             user == derive_user(o, nick, msg.content)
             text == derive_message(o, nick, msg.content)
             subst == IF user # << >> THEN <<substituted_user(o, user[1])>> ELSE << >>
         IN  IF ignored(o, nick, msg.content)
             THEN [dropped |-> TRUE, message |-> msg, user |-> << >>, text |-> << >>]
             ELSE [dropped |-> FALSE,
                   message |->
                       [msg EXCEPT
                           !.prefix  = IF subst # << >>
                                       THEN rewrite_prefix(msg.prefix, nick, subst[1])
                                       ELSE msg.prefix,
                           !.content = IF text # << >> THEN text[1] ELSE msg.content],
                   user |-> subst,
                   text |-> text]

\* ---------------------------------------------------------------- state

VARIABLES
    bot_plugins,   \* Bot.plugins: lowercased name -> plugin instance
    last_op,       \* the last call on the Bot, what it returned, the call before
    registered,    \* the registry's keys, oldest registration first
    connected,     \* Bot::connect has registered the handler closure
    plugins,       \* the closure's clone of Bot.plugins
    pc,            \* the dispatch thread: "idle", "execute_plugins", "panicked",
                   \* and "exited" once its panic has ended the process
    message,       \* the message process_msg is working on (after the bridge stage)
    command,       \* PluginCommand::try_from's result for it: << >> or <<cmd>>
    iter,          \* execute_plugins: the cloned map the for loop iterates
    pending,       \* execute_plugins: the keys the loop has not yet visited
    executed,      \* the execute calls of this message's round, in call order
    workers,       \* the threads alive, and those that finished in this round
    handled,       \* handle_command's return for this message: "none" before it
    returned,      \* process_msg calls that returned Ok(()) to the reactor
    options,       \* client.config().options of the session
    inbound,       \* the message as the reactor delivered it to process_msg
    bridged,       \* the bridge stage's outcome for it: dropped, bridge_user, bridge_message
    late,          \* the calls made on the Bot after Bot::connect: for each, the
                   \* message whose round was in flight (0: none was)
    sent,          \* who has sent on the session (send_privmsg, send_notice)
    factoids,      \* Factoids.factoids: the HashMap (name, idx) -> factoid
    adders,        \* the threads running Factoids::add, each with its locals
    tells,         \* Tell.tells: the stored tells, oldest first
    evaluated,     \* the last evaluate call and what it returned: << >> or <<call>>
    getter,        \* the thread running Factoids::get, with its locals
    tell_run,      \* Tell: the holder of the lock on the store, the send_tells call
                   \* in progress with its locals, and the notices sent so far
    random_index   \* the RandomIndex: its fields and what the last get returned

vars == <<bot_plugins, last_op, registered, connected, plugins, pc, message, command,
          iter, pending, executed, workers, handled, returned, options, inbound,
          bridged, late, sent, factoids, adders, tells, evaluated, getter,
          tell_run, random_index>>

bot_vars == <<bot_plugins, last_op, registered>>
dispatch_vars ==
    <<pc, message, command, iter, pending, executed, workers, handled, returned,
      inbound, bridged, sent>>
env_vars == <<options, late>>
thread_vars == <<getter, tell_run, random_index>>
handler_vars == <<factoids, adders, tells, evaluated, thread_vars>>

\* The bridge stage's outcome before any message was delivered.
NotBridged == [dropped |-> FALSE, user |-> << >>, text |-> << >>]

Statuses == {"Done", "Err", "RequiresThread"}

\* A call on the Bot as last_op records it: the operation, its argument (a
\* plugin and its name, or the name to remove), its return value, whether
\* the lowercased name was in the registry before the call, and the
\* operation and name of the call before it.
NoCall == [op |-> "none", name |-> << >>]
Call(op, name, plugin, ret, present, before) ==
    [op |-> op, name |-> name, plugin |-> plugin, ret |-> ret,
     present |-> present, prev_op |-> before.op, prev_name |-> before.name]

\* The sequence seq without the element x.
Without(seq, x) == SelectSeq(seq, LAMBDA y : y # x)

\* The threads that may run Factoids::add.
Adders == 1..NumAdders

\* An add that has not been invoked yet.
NoAdd == [pc |-> "idle", name |-> "", count |-> 0, response |-> "none"]

\* A get that has not been invoked yet.
NoGet == [pc |-> "idle", name |-> "", count |-> 0, result |-> "none", content |-> 0]

\* No send_tells call in progress: the lock is free, nothing was sent.
NoSendTells ==
    [lock |-> "none", pc |-> "idle", receiver |-> << >>, batch |-> << >>,
     next |-> 0, ret |-> "none", runs |-> 0, told |-> {}, delivered |-> << >>,
     inserting |-> << >>]

\* RandomIndex::new()
RandomIndexNew ==
    [count |-> 0, list |-> << >>, local_index |-> 0, initialized |-> FALSE,
     got |-> << >>, op |-> "new", generated |-> 0, init_called |-> FALSE,
     regenerated |-> FALSE]

\* The handlers as their constructors leave them: Factoids::new over an
\* empty HashMap, Tell::new over an empty store, nothing evaluated yet, a
\* new RandomIndex.
NewHandlers ==
    /\ factoids = EmptyMap
    /\ adders = [t \in Adders |-> NoAdd]
    /\ tells = << >>
    /\ evaluated = << >>
    /\ getter = NoGet
    /\ tell_run = NoSendTells
    /\ random_index = RandomIndexNew

Init ==
    /\ NewHandlers
    /\ bot_plugins = EmptyMap
    /\ last_op = Call("new", << >>, 0, "()", FALSE, NoCall)
    /\ registered = << >>
    /\ connected = FALSE
    /\ plugins = EmptyMap
    /\ pc = "idle"
    /\ message = NoMessage
    /\ command = << >>
    /\ iter = EmptyMap
    /\ pending = {}
    /\ executed = << >>
    /\ workers = {}
    /\ handled = "none"
    /\ returned = 0
    /\ options = NoOptions
    /\ inbound = NoMessage
    /\ bridged = NotBridged
    /\ late = << >>
    /\ sent = {}

\* ---------------------------------------------------------------- the Bot

\* Bot::add_plugin(plugin). The host (main) sets its Bot up before it
\* connects it.
AddPlugin(p) ==
    /\ ~connected
    /\ bot_plugins' = add(bot_plugins, p)
    /\ last_op' = Call("add", PluginName(p), p, "()",
                        ToLowercase(PluginName(p)) \in DOMAIN bot_plugins, last_op)
    /\ registered' = Without(registered, ToLowercase(PluginName(p)))
                        \o <<ToLowercase(PluginName(p))>>
    /\ UNCHANGED <<connected, plugins>>
    /\ UNCHANGED dispatch_vars
    /\ UNCHANGED env_vars
    /\ UNCHANGED handler_vars

\* Bot::remove_plugin(name)
RemovePlugin(n) ==
    /\ ~connected
    /\ LET r == remove(bot_plugins, n)
       IN  /\ bot_plugins' = r.plugins
           /\ last_op' = Call("remove", n, 0, r.ret,
                               ToLowercase(n) \in DOMAIN bot_plugins, last_op)
    /\ registered' = Without(registered, ToLowercase(n))
    /\ UNCHANGED <<connected, plugins>>
    /\ UNCHANGED dispatch_vars
    /\ UNCHANGED env_vars
    /\ UNCHANGED handler_vars

\* Bot::connect: the handler closure moves a clone of the registry.
Connect ==
    /\ ~connected
    /\ connected' = TRUE
    /\ plugins' = bot_plugins
    /\ last_op' = Call("connect", << >>, 0, "Ok", FALSE, NoCall)
    /\ UNCHANGED <<bot_plugins, registered>>
    /\ UNCHANGED dispatch_vars
    /\ UNCHANGED env_vars
    /\ UNCHANGED handler_vars

\* ---------------------------------------------------------------- dispatch

\* The plausible slip: the thread is handed the message as the reactor
\* delivered it, not the one the probes were given.
ThreadedWorkerUnbridged(name, plugin, msg) ==
    [kind |-> "execute_threaded", name |-> name, plugin |-> plugin,
     round |-> msg.id, message |-> inbound, command |-> NoCommand,
     state |-> "spawned", result |-> "none"]

\* The thread execute_plugins spawns for a plugin whose execute returned
\* RequiresThread: it holds clones of the plugin and message Arcs.
ThreadedWorker(name, plugin, msg) ==
    [kind |-> "execute_threaded", name |-> name, plugin |-> plugin,
     round |-> msg.id, message |-> msg, command |-> NoCommand,
     state |-> "spawned", result |-> "none"]

\* The thread handle_command spawns: it holds the plugin Arc and the command.
CommandWorker(name, plugin, msg, cmd) ==
    [kind |-> "command", name |-> name, plugin |-> plugin,
     round |-> msg.id, message |-> NoMessage, command |-> cmd,
     state |-> "spawned", result |-> "none"]

\* The plausible slip: the work of a failed spawn is kept and run anyway.
spawn_threaded_retry(ws, name, plugin, msg, status, spawn_ok) ==
    IF status = "RequiresThread"
    THEN ws \cup {ThreadedWorker(name, plugin, msg)}
    ELSE ws

\* The plausible slip: the command is routed inside the loop, when the
\* entry of the plugin it names is visited.
spawn_command_in_loop(ws, name, plugin, msg, status, spawn_ok) ==
    (IF status = "RequiresThread" /\ spawn_ok
     THEN ws \cup {ThreadedWorker(name, plugin, msg)}
     ELSE ws)
    \cup
    (IF /\ command # << >>
        /\ command[1].tokens # << >>
        /\ ToLowercase(command[1].tokens[1]) = name
     THEN {CommandWorker(command[1].tokens[1], plugin, msg,
                         [command[1] EXCEPT !.tokens = Tail(command[1].tokens)])}
     ELSE {})

\* The plausible slip: the spawn arm is taken for a failed probe too.
spawn_on_any_failure(ws, name, plugin, msg, status, spawn_ok) ==
    IF status # "Done" /\ spawn_ok
    THEN ws \cup {ThreadedWorker(name, plugin, msg)}
    ELSE ws

\* The match on execute's status in execute_plugins: only RequiresThread
\* spawns, and a failed spawn is logged and leaves no thread.
spawn_threaded(ws, name, plugin, msg, status, spawn_ok) ==
    IF status = "RequiresThread" /\ spawn_ok
    THEN ws \cup {ThreadedWorker(name, plugin, msg)}
    ELSE ws

\* The plausible slip: a failed probe ends the loop (an early return / `?`).
after_execute_abort(left, name, status) ==
    IF status = "Err" THEN {} ELSE left \ {name}

\* The plausible slip: the loop does not move on, and an entry is visited
\* again.
after_execute_stay(left, name, status) == left

\* The for loop of execute_plugins goes on to the next entry whatever the
\* status was.
after_execute(left, name, status) == left \ {name}

\* The plausible slip: the plugin's name is left in the tokens it is given.
handle_command_keep_name(plugs, ws, msg, cmd, spawn_ok) ==
    IF cmd.tokens = << >>
    THEN [panic |-> TRUE, ret |-> "none", workers |-> ws]
    ELSE LET key == ToLowercase(cmd.tokens[1])
         IN  IF key \in DOMAIN plugs
             THEN IF spawn_ok
                  THEN [panic |-> FALSE, ret |-> "Ok",
                        workers |-> ws \cup
                            {CommandWorker(cmd.tokens[1], plugs[key], msg, cmd)}]
                  ELSE [panic |-> FALSE, ret |-> "Err", workers |-> ws]
             ELSE [panic |-> FALSE, ret |-> "Ok", workers |-> ws]

\* The plausible slip: an unknown plugin name is reported as an error.
handle_command_unknown_err(plugs, ws, msg, cmd, spawn_ok) ==
    IF cmd.tokens = << >>
    THEN [panic |-> TRUE, ret |-> "none", workers |-> ws]
    ELSE LET key == ToLowercase(cmd.tokens[1])
         IN  IF key \in DOMAIN plugs
             THEN IF spawn_ok
                  THEN [panic |-> FALSE, ret |-> "Ok",
                        workers |-> ws \cup
                            {CommandWorker(cmd.tokens[1], plugs[key], msg,
                                           [cmd EXCEPT !.tokens = Tail(cmd.tokens)])}]
                  ELSE [panic |-> FALSE, ret |-> "Err", workers |-> ws]
             ELSE [panic |-> FALSE, ret |-> "Err", workers |-> ws]

\* ThreadedPlugins::handle_command. tokens[0] of an empty Vec panics.
handle_command(plugs, ws, msg, cmd, spawn_ok) ==
    IF cmd.tokens = << >>
    THEN [panic |-> TRUE, ret |-> "none", workers |-> ws]
    ELSE LET key == ToLowercase(cmd.tokens[1])
         IN  IF key \in DOMAIN plugs
             THEN IF spawn_ok
                  THEN [panic |-> FALSE, ret |-> "Ok",
                        workers |-> ws \cup
                            {CommandWorker(cmd.tokens[1], plugs[key], msg,
                                           [cmd EXCEPT !.tokens = Tail(cmd.tokens)])}]
                  ELSE [panic |-> FALSE, ret |-> "Err", workers |-> ws]
             ELSE [panic |-> FALSE, ret |-> "Ok", workers |-> ws]

\* The plausible slip: the command is parsed with another prefix than the
\* Bot's (here the empty one).
parse_command_other_prefix(pre, delivered, rewritten) == try_from(<< >>, rewritten)

\* The plausible slip: the command is parsed before the bridge stage.
parse_command_unbridged(pre, delivered, rewritten) == try_from(pre, delivered)

\* PluginCommand::try_from(&self.cmd_prefix, &message) in process_msg: the
\* message it is given is the one the bridge stage left.
parse_command(pre, delivered, rewritten) == try_from(pre, rewritten)

\* process_msg up to the for loop of execute_plugins. The bridge stage runs
\* first and may return Ok(()) at once; otherwise a JOIN is only logged,
\* the command is parsed from the message before execute_plugins takes it,
\* the message is put in an Arc and the registry is cloned for the loop.
\* The record of the previous round (its execute calls, its finished
\* threads) is dropped here.
ProcessMsg(m) ==
    /\ connected
    /\ pc = "idle"
    /\ inbound.id < MaxMsgs
    /\ LET delivered == [m EXCEPT !.id = inbound.id + 1]
           b == bridge(options, delivered)
       IN  /\ inbound' = delivered
           /\ bridged' = [dropped |-> b.dropped, user |-> b.user, text |-> b.text]
           /\ IF b.dropped
              THEN /\ message' = [NoMessage EXCEPT !.id = delivered.id]
                   /\ command' = << >>
                   /\ iter' = EmptyMap
                   /\ pending' = {}
                   /\ pc' = "idle"
                   /\ returned' = returned + 1
              ELSE /\ message' = b.message
                   /\ command' = parse_command(prefix, delivered, b.message)
                   /\ iter' = plugins
                   /\ pending' = DOMAIN plugins
                   /\ pc' = "execute_plugins"
                   /\ UNCHANGED returned
    /\ executed' = << >>
    /\ workers' = {w \in workers : w.state = "spawned"}
    /\ handled' = "none"
    /\ UNCHANGED <<connected, plugins, sent>>
    /\ UNCHANGED bot_vars
    /\ UNCHANGED env_vars
    /\ UNCHANGED handler_vars

\* The plausible slip: a command for no plugin is answered on the session.
dispatcher_replies(event) ==
    IF event = "unknown_command" THEN {"dispatcher"} ELSE {}

\* What the dispatcher itself sends on the session when a probe failed, a
\* spawn failed, a command named no plugin, a command could not be handled
\* or a thread's call failed: log_error, error! and debug! write to the log
\* only.
dispatcher_sends(event) == {}

\* One iteration of the for loop: the HashMap yields its entries in an
\* order of its own, execute is called (and may send on the session), and
\* its status is matched.
Execute(name, status, spawn_ok, send) ==
    /\ pc = "execute_plugins"
    /\ name \in pending
    /\ executed' = Append(executed,
            [name |-> name, plugin |-> iter[name], message |-> message,
             status |-> status,
             spawned |-> status = "RequiresThread" /\ spawn_ok])
    /\ workers' = spawn_threaded(workers, name, iter[name], message, status, spawn_ok)
    /\ pending' = after_execute(pending, name, status)
    /\ sent' = sent \cup (IF send THEN {"execute"} ELSE {})
                    \cup (IF status = "Err" THEN dispatcher_sends("execute_err") ELSE {})
                    \cup (IF status = "RequiresThread" /\ ~spawn_ok
                          THEN dispatcher_sends("spawn_err") ELSE {})
    /\ UNCHANGED <<pc, message, command, iter, handled, returned, connected, plugins,
                   inbound, bridged>>
    /\ UNCHANGED bot_vars
    /\ UNCHANGED env_vars

\* The same, of a handler whose execute sends nothing.
ExecutePlugin(name, status, spawn_ok) ==
    /\ Execute(name, status, spawn_ok, FALSE)
    /\ UNCHANGED handler_vars

\* The plausible slip: the handles of the spawned threads are kept and
\* joined before process_msg returns.
join_handles_kept(ws) == {w \in ws : w.state = "spawned"}

\* The JoinHandles the dispatch thread holds when it is about to return:
\* execute_plugins looks only at the Err of thread::Builder::spawn and
\* handle_command applies ? to it, so the Ok(JoinHandle) is dropped on the
\* spot and the thread is detached. Nothing is left to join.
join_handles(ws) == {}

\* process_msg after execute_plugins has returned: handle_command for a
\* parsed command, its error logged, and Ok(()) to the reactor. A thread
\* whose handle were still held would be waited for here.
HandleCommand(spawn_ok) ==
    /\ pc = "execute_plugins"
    /\ pending = {}
    /\ join_handles(workers) = {}
    /\ IF command = << >>
       THEN /\ pc' = "idle"
            /\ returned' = returned + 1
            /\ UNCHANGED <<workers, handled, sent>>
       ELSE LET r == handle_command(plugins, workers, message, command[1], spawn_ok)
            IN  IF r.panic
                THEN /\ pc' = "panicked"
                     /\ UNCHANGED <<workers, handled, returned, sent>>
                ELSE /\ pc' = "idle"
                     /\ workers' = r.workers
                     /\ handled' = r.ret
                     /\ returned' = returned + 1
                     /\ sent' = sent \cup
                            (IF r.ret = "Err" THEN dispatcher_sends("command_err")
                             ELSE IF r.workers = workers
                                  THEN dispatcher_sends("unknown_command")
                                  ELSE {})
    /\ UNCHANGED <<message, command, iter, pending, executed, connected, plugins,
                   inbound, bridged>>
    /\ UNCHANGED bot_vars
    /\ UNCHANGED env_vars
    /\ UNCHANGED handler_vars

\* A spawned thread runs: execute_threaded or command is invoked once; an
\* Err it returns is logged by the thread itself. The thread is then gone;
\* the record keeps it, with its result, when it is of the current round.
\* No thread runs once the process has exited.
Run(w, res, send) ==
    /\ pc # "exited"
    /\ w \in workers
    /\ w.state = "spawned"
    /\ workers' = (workers \ {w}) \cup
                    (IF w.round = message.id
                     THEN {[w EXCEPT !.state = "finished", !.result = res]}
                     ELSE {})
    /\ sent' = sent \cup (IF send THEN {w.kind} ELSE {})
                    \cup (IF res = "Err" THEN dispatcher_sends("worker_err") ELSE {})
    /\ UNCHANGED <<pc, message, command, iter, pending, executed, handled,
                   returned, connected, plugins, inbound, bridged>>
    /\ UNCHANGED bot_vars
    /\ UNCHANGED env_vars

\* The same, of a handler whose execute_threaded or command sends nothing.
RunWorker(w, res) ==
    /\ Run(w, res, FALSE)
    /\ UNCHANGED handler_vars

Next ==
    \/ \E p \in Plugins : AddPlugin(p)
    \/ \E n \in RemoveNames : RemovePlugin(n)
    \/ Connect
    \/ \E m \in Messages : ProcessMsg(m)
    \/ \E name \in pending, status \in Statuses, ok \in BOOLEAN :
            ExecutePlugin(name, status, ok)
    \/ \E ok \in BOOLEAN : HandleCommand(ok)
    \/ \E w \in workers, res \in {"Ok", "Err"} : RunWorker(w, res)

Spec == Init /\ [][Next]_vars

\* ------------------------------------------- a host that keeps using its Bot

\* The state Bot::connect leaves when the host has added the plugins of
\* the sequence added, none of them twice, and the session's configuration
\* is opts.
RECURSIVE AddAll(_)
AddAll(added) ==
    IF added = << >> THEN EmptyMap
    ELSE add(AddAll(SubSeq(added, 1, Len(added) - 1)), added[Len(added)])

\* The state Bot::connect leaves for a registry, the order its keys were
\* registered in, and the session's configuration.
ConnectedWith(registry, keys, opts) ==
    /\ NewHandlers
    /\ bot_plugins = registry
    /\ last_op = Call("connect", << >>, 0, "Ok", FALSE, NoCall)
    /\ registered = keys
    /\ connected = TRUE
    /\ plugins = registry
    /\ pc = "idle"
    /\ message = NoMessage
    /\ command = << >>
    /\ iter = EmptyMap
    /\ pending = {}
    /\ executed = << >>
    /\ workers = {}
    /\ handled = "none"
    /\ returned = 0
    /\ options = opts
    /\ inbound = NoMessage
    /\ bridged = NotBridged
    /\ late = << >>
    /\ sent = {}

Connected(added, opts) ==
    ConnectedWith(AddAll(added),
                  [i \in 1..Len(added) |-> ToLowercase(PluginName(added[i]))], opts)

\* The round in flight when a call on the Bot is made.
InFlight == IF pc = "execute_plugins" THEN message.id ELSE 0

\* The plausible slip: connect hands the Bot's own registry to the handler
\* closure, and a later add_plugin shows in the session.
AddPluginShared(p) ==
    /\ connected
    /\ Len(late) < MaxLateOps
    /\ bot_plugins' = add(bot_plugins, p)
    /\ plugins' = add(bot_plugins, p)
    /\ last_op' = Call("add", PluginName(p), p, "()",
                        ToLowercase(PluginName(p)) \in DOMAIN bot_plugins, NoCall)
    /\ registered' = Without(registered, ToLowercase(PluginName(p)))
                        \o <<ToLowercase(PluginName(p))>>
    /\ late' = Append(late, InFlight)
    /\ UNCHANGED <<connected, options>>
    /\ UNCHANGED handler_vars
    /\ UNCHANGED dispatch_vars

\* Bot::add_plugin after Bot::connect, from the host's thread: the Bot's
\* own ThreadedPlugins is changed, the handler closure holds its clone.
AddPluginLate(p) ==
    /\ connected
    /\ Len(late) < MaxLateOps
    /\ bot_plugins' = add(bot_plugins, p)
    /\ last_op' = Call("add", PluginName(p), p, "()",
                        ToLowercase(PluginName(p)) \in DOMAIN bot_plugins, NoCall)
    /\ registered' = Without(registered, ToLowercase(PluginName(p)))
                        \o <<ToLowercase(PluginName(p))>>
    /\ late' = Append(late, InFlight)
    /\ UNCHANGED <<connected, plugins, options>>
    /\ UNCHANGED handler_vars
    /\ UNCHANGED dispatch_vars

\* The plausible slip: the handler closure shares the Bot's registry
\* instead of holding a clone, and the loop iterates the shared map.
RemovePluginShared(n) ==
    /\ connected
    /\ Len(late) < MaxLateOps
    /\ LET r == remove(bot_plugins, n)
       IN  /\ bot_plugins' = r.plugins
           /\ plugins' = r.plugins
           /\ last_op' = Call("remove", n, 0, r.ret,
                               ToLowercase(n) \in DOMAIN bot_plugins, NoCall)
    /\ registered' = Without(registered, ToLowercase(n))
    /\ late' = Append(late, InFlight)
    /\ pending' = pending \ {ToLowercase(n)}
    /\ UNCHANGED <<connected, options>>
    /\ UNCHANGED handler_vars
    /\ UNCHANGED <<pc, message, command, iter, executed, workers, handled, returned,
                   inbound, bridged, sent>>

\* Bot::remove_plugin after Bot::connect.
RemovePluginLate(n) ==
    /\ connected
    /\ Len(late) < MaxLateOps
    /\ LET r == remove(bot_plugins, n)
       IN  /\ bot_plugins' = r.plugins
           /\ last_op' = Call("remove", n, 0, r.ret,
                               ToLowercase(n) \in DOMAIN bot_plugins, NoCall)
    /\ registered' = Without(registered, ToLowercase(n))
    /\ late' = Append(late, InFlight)
    /\ UNCHANGED <<connected, plugins, options>>
    /\ UNCHANGED handler_vars
    /\ UNCHANGED dispatch_vars

\* The host of this specification added one plugin before it connected.
InitLate == Connected(<<1>>, NoOptions)

NextLate ==
    \/ \E p \in Plugins : AddPluginLate(p)
    \/ \E n \in RemoveNames : RemovePluginLate(n)
    \/ \E m \in Messages : ProcessMsg(m)
    \/ \E name \in pending, status \in Statuses, ok \in BOOLEAN :
            ExecutePlugin(name, status, ok)
    \/ \E ok \in BOOLEAN : HandleCommand(ok)
    \/ \E w \in workers, res \in {"Ok", "Err"} : RunWorker(w, res)

SpecLate == InitLate /\ [][NextLate]_vars

\* ------------------------------------------------- sessions behind a bridge

\* bridge_relay_format: "^(?P<username>.+)-$", and "^(.+)-$", which matches
\* the same nicks without naming a username.
RelayWithUser == Regex("one", << >>, <<"-">>, "username")
RelayNoUser == Regex("one", << >>, <<"-">>, "")
\* bridge_ignore_regex: "^#".
IgnorePattern == Regex("prefix", <<"#">>, << >>, "")
\* bridge_regex: "^(?P<username>[^:]+):(?P<message>.*)$",
\* "^>(?P<message>.+)$" and "^<(?P<username>.+)>$".
ContentBoth == Regex("two", <<":">>, << >>, "")
ContentMessage == Regex("one", <<">">>, << >>, "message")
ContentUser == Regex("one", <<"<">>, <<">">>, "username")

\* The configurations a session may have.
AllOptions ==
    {NoOptions} \cup
    {Options(r, n, i, c, z) :
        r \in {<< >>, <<RelayWithUser>>, <<RelayNoUser>>},
        n \in {<< >>, <<<<"r">>>>, <<<<"u", "-">>>>},
        i \in {<< >>, <<IgnorePattern>>},
        c \in {<< >>, <<ContentBoth>>, <<ContentMessage>>, <<ContentUser>>},
        z \in {<< >>, <<<<"t", "r", "u", "e">>>>, <<<<"T", "r", "u", "e">>>>,
               <<<<"f", "a", "l", "s", "e">>>>}}

\* The prefixes of the senders: the bridge bot r (whose nick recurs in its
\* user name), two relayed nicks u- and uZ-, and the user n.
BridgePrefixes == {
    <<"r", "!", "r", "@", "h">>,
    <<"u", "-", "!", "x", "@", "h">>,
    <<"u", ZWS, "-", "!", "x", "@", "h">>,
    UserPrefix }

\* The texts sent: a command, a relayed command, a line to ignore that is
\* also a relayed one, a quoted line, a bare user tag, a relayed line whose
\* user has a zero width space.
BridgeContents == {
    <<".", "A", " ", "x">>,
    <<"v", ":", ".", "A", " ", "x">>,
    <<"#", "v", ":", "x">>,
    <<">", "h", "i">>,
    <<"<", "v", ">">>,
    <<"v", ZWS, ":", "b">> }

\* The messages the reactor may deliver to such a session.
BridgeMessages ==
    {[id |-> 0, kind |-> "PRIVMSG", prefix |-> p, target |-> "#c", content |-> c]
        : p \in BridgePrefixes, c \in BridgeContents}
    \cup {[id |-> 0, kind |-> "NOTICE", prefix |-> p, target |-> "#c",
           content |-> <<"#", "v", ":", "x">>] : p \in BridgePrefixes}
    \cup {[id |-> 0, kind |-> "JOIN", prefix |-> UserPrefix, target |-> "#c",
           content |-> << >>]}

\* The bridge stage of process_msg alone, on the first message of a session.
BridgeStage(m) ==
    /\ connected
    /\ pc = "idle"
    /\ inbound = NoMessage
    /\ LET delivered == [m EXCEPT !.id = 1]
           b == bridge(options, delivered)
       IN  /\ inbound' = delivered
           /\ bridged' = [dropped |-> b.dropped, user |-> b.user, text |-> b.text]
           /\ message' = IF b.dropped THEN [NoMessage EXCEPT !.id = 1] ELSE b.message
    /\ UNCHANGED <<pc, command, iter, pending, executed, workers, handled, returned,
                   connected, plugins, sent>>
    /\ UNCHANGED bot_vars
    /\ UNCHANGED env_vars
    /\ UNCHANGED handler_vars

InitRewrite == \E o \in AllOptions : Connected(<< >>, o)

NextRewrite == \E m \in BridgeMessages : BridgeStage(m)

SpecRewrite == InitRewrite /\ [][NextRewrite]_vars

\* The whole of process_msg behind a bridge: the session has no options, or
\* names its bridge bot, an ignore pattern and a content pattern, or has a
\* relay format in place of the bridge bot's name.
PipelineOptions ==
    {NoOptions,
     Options(<< >>, <<<<"r">>>>, <<IgnorePattern>>, <<ContentBoth>>, << >>),
     Options(<<RelayWithUser>>, << >>, <<IgnorePattern>>, <<ContentBoth>>, << >>)}

\* The bridge bot and a relayed nick send a relayed command and a line to
\* ignore, and the bridge bot sends a NOTICE.
PipelineMessages ==
    {m \in BridgeMessages :
        /\ m.content \in {<<"v", ":", ".", "A", " ", "x">>, <<"#", "v", ":", "x">>}
        /\ \/ m.prefix = <<"r", "!", "r", "@", "h">>
           \/ m.kind = "PRIVMSG" /\ m.prefix = <<"u", "-", "!", "x", "@", "h">>}

InitBridge == \E o \in PipelineOptions : Connected(<<1, 3>>, o)

NextBridge ==
    \/ \E m \in PipelineMessages : ProcessMsg(m)
    \/ \E name \in pending, status \in Statuses, ok \in BOOLEAN :
            ExecutePlugin(name, status, ok)
    \/ \E ok \in BOOLEAN : HandleCommand(ok)
    \/ \E w \in workers, res \in {"Ok", "Err"} : RunWorker(w, res)

SpecBridge == InitBridge /\ [][NextBridge]_vars

\* ------------------------------------------------------ the command parser

\* The texts a user sends: commands with one and with several blanks
\* between the words, a blank after the prefix, the words without the
\* prefix, the prefix inside the text, the bare prefix, the prefix and
\* blanks only.
ParseContents == {
    <<".", "t", "e", " ", "b", " ", "h">>,
    <<".", "t", "e", " ", " ", "b">>,
    <<".", " ", "t">>,
    <<"t", "e", " ", "b">>,
    <<"t", ".", "b">>,
    <<".">>,
    <<".", " ", " ">> }

ParseMessages ==
    {[id |-> 0, kind |-> "PRIVMSG", prefix |-> UserPrefix, target |-> "#c", content |-> c]
        : c \in ParseContents}
    \cup {[id |-> 0, kind |-> "JOIN", prefix |-> UserPrefix, target |-> "#c",
           content |-> << >>]}

\* A session with one plugin and without options: process_msg parses the
\* command, runs the fan-out and hands the command to handle_command.
InitParse == Connected(<<1>>, NoOptions)

NextParse ==
    \/ \E m \in ParseMessages : ProcessMsg(m)
    \/ \E name \in pending, status \in Statuses, ok \in BOOLEAN :
            ExecutePlugin(name, status, ok)
    \/ \E ok \in BOOLEAN : HandleCommand(ok)
    \/ \E w \in workers, res \in {"Ok", "Err"} : RunWorker(w, res)

SpecParse == InitParse /\ [][NextParse]_vars

\* ------------------------------------------------- handlers that send

\* A command for the plugin a and a command that names no plugin.
SendMessages ==
    {[id |-> 0, kind |-> "PRIVMSG", prefix |-> UserPrefix, target |-> "#c", content |-> c]
        : c \in {<<".", "A", " ", "x">>, <<".", "x">>}}

\* A session with one plugin whose execute, execute_threaded and command
\* may each send on the session.
InitSend == Connected(<<1>>, NoOptions)

NextSend ==
    \/ \E m \in SendMessages : ProcessMsg(m)
    \/ \E name \in pending, status \in Statuses, ok \in BOOLEAN, send \in BOOLEAN :
            Execute(name, status, ok, send) /\ UNCHANGED handler_vars
    \/ \E ok \in BOOLEAN : HandleCommand(ok)
    \/ \E w \in workers, res \in {"Ok", "Err"}, send \in BOOLEAN :
            Run(w, res, send) /\ UNCHANGED handler_vars

SpecSend == InitSend /\ [][NextSend]_vars

\* ---------------------------------------------------------------- properties

\* self.plugins.get(&name.to_lowercase()): << >> or the plugin found.
Lookup(reg, name) ==
    IF ToLowercase(name) \in DOMAIN reg THEN <<reg[ToLowercase(name)]>> ELSE << >>

\* Some plugin in reg has a name equal to `name` under case folding.
NameRegistered(reg, name) ==
    \E k \in DOMAIN reg : ToLowercase(PluginName(reg[k])) = ToLowercase(name)

\* No two entries of reg hold plugins whose names are equal under case folding.
UniqueFolded(reg) ==
    \A k1, k2 \in DOMAIN reg :
        k1 # k2 => ToLowercase(PluginName(reg[k1])) # ToLowercase(PluginName(reg[k2]))

ExecutedNames == {executed[i].name : i \in DOMAIN executed}

\* The execute_threaded threads of the round's entry e, alive or finished.
ThreadsOf(e) ==
    {w \in workers : /\ w.kind = "execute_threaded"
                     /\ w.plugin = e.plugin
                     /\ w.message = e.message}

\* The command threads spawned for the current message, alive or finished.
CommandThreads == {w \in workers : w.kind = "command" /\ w.round = message.id}

\* handle_command has run for the current message, on a command whose first
\* token is a registered name under case folding.
RoutedToPlugin ==
    /\ handled # "none"
    /\ command # << >>
    /\ command[1].tokens # << >>
    /\ NameRegistered(plugins, command[1].tokens[1])

\* The position of x in seq (0 when absent).
Pos(seq, x) ==
    IF \E i \in DOMAIN seq : seq[i] = x
    THEN CHOOSE i \in DOMAIN seq : seq[i] = x
    ELSE 0

\* C1: in a dispatch round in which some plugin's execute failed, every plugin
\* of the snapshot is still either waiting for its call or was called exactly
\* once with this message (all of them once the loop is over), and what each
\* call led to depends on its own status alone: a thread exists for it
\* exactly when it returned RequiresThread and its own spawn succeeded.
C1_FanOutIsolation ==
    (\E i \in DOMAIN executed : executed[i].status = "Err") =>
        /\ \A i, j \in DOMAIN executed : i # j => executed[i].name # executed[j].name
        /\ ExecutedNames \cup pending = DOMAIN iter
        /\ ExecutedNames \cap pending = {}
        /\ \A i \in DOMAIN executed :
              LET e == executed[i]
              IN  /\ e.plugin = iter[e.name]
                  /\ e.message = message
                  /\ e.spawned => e.status = "RequiresThread"
                  /\ Cardinality(ThreadsOf(e)) = (IF e.spawned THEN 1 ELSE 0)

\* C1 witness: the first plugin probed failed; the second, probed after it,
\* returned RequiresThread, and its thread ran.
C1_Witness ==
    /\ pending = {}
    /\ Len(executed) = 2
    /\ executed[1].status = "Err"
    /\ executed[2].status = "RequiresThread"
    /\ \E w \in ThreadsOf(executed[2]) : w.state = "finished"

\* C2: every thread that runs execute_threaded(h, m) comes from an execute
\* call on h with m that returned RequiresThread: a step leaves no such
\* thread (alive, or finished) that was not alive with the same h and m
\* before the step, unless the round's record holds that call.
C2_ThreadedOnlyAfterRequiresThread ==
    [][\A w \in workers' :
          w.kind = "execute_threaded" =>
              \/ \E i \in DOMAIN executed' :
                    /\ executed'[i].plugin = w.plugin
                    /\ executed'[i].message = w.message
                    /\ executed'[i].status = "RequiresThread"
              \/ \E v \in workers :
                    /\ v.kind = "execute_threaded"
                    /\ v.state = "spawned"
                    /\ v.plugin = w.plugin
                    /\ v.message = w.message]_vars

\* C2 witness: execute_threaded has run on a thread.
C2_Witness ==
    \E w \in workers : w.kind = "execute_threaded" /\ w.state = "finished"

\* C3 as stated: a command whose first token names a registered plugin
\* always gets exactly one thread, for that plugin, with the first token
\* removed.
C3_RouteExactlyOne ==
    RoutedToPlugin =>
        \E w \in workers :
            /\ CommandThreads = {w}
            /\ <<w.plugin>> = Lookup(plugins, command[1].tokens[1])
            /\ w.command = [command[1] EXCEPT !.tokens = Tail(command[1].tokens)]

\* C3 as amended: such a command gets exactly one thread when the spawn
\* succeeds (handle_command returns Ok), for the plugin found under the
\* lowercased first token and with that token removed, the other tokens,
\* source and target as parsed; when the spawn fails handle_command returns
\* Err and there is no thread. No message ever has two command threads.
C3_RouteAtMostOne ==
    /\ Cardinality(CommandThreads) <= 1
    /\ RoutedToPlugin =>
          IF handled = "Ok"
          THEN \E w \in workers :
                  /\ CommandThreads = {w}
                  /\ <<w.plugin>> = Lookup(plugins, command[1].tokens[1])
                  /\ w.command = [command[1] EXCEPT !.tokens = Tail(command[1].tokens)]
          ELSE CommandThreads = {}

\* C3 witness: ".A x" was routed to the plugin registered under "a", whose
\* command ran with the tokens ["x"].
C3_Witness ==
    /\ RoutedToPlugin
    /\ handled = "Ok"
    /\ command[1].tokens = << <<"A">>, <<"x">> >>
    /\ \E w \in CommandThreads :
          /\ w.state = "finished"
          /\ w.plugin = plugins[<<"a">>]
          /\ w.command.tokens = << <<"x">> >>

C5_ProcessMsgAlwaysOk ==
    /\ pc # "panicked"
    /\ pc = "idle" => returned = message.id

\* C6 as stated: routing a command with no tokens spawns nothing and returns
\* normally.
C6_EmptyCommandNoCrash ==
    [][(/\ pc = "execute_plugins"
        /\ pending = {}
        /\ pc' # pc
        /\ command # << >>
        /\ command[1].tokens = << >>)
       => (/\ pc' = "idle"
           /\ workers' = workers
           /\ returned' = returned + 1)]_vars

C8_UniqueNames ==
    [][/\ UniqueFolded(bot_plugins')
       /\ UniqueFolded(plugins')
       /\ (/\ last_op' # last_op
           /\ last_op'.op = "add"
           /\ NameRegistered(bot_plugins, last_op'.name))
          => /\ Cardinality(DOMAIN bot_plugins') = Cardinality(DOMAIN bot_plugins)
             /\ Lookup(bot_plugins', last_op'.name) = <<last_op'.plugin>>]_vars

\* C8 witness: plugin "A" was added while plugin "a" was registered, and
\* replaced it.
C8_Witness ==
    /\ last_op.op = "add"
    /\ last_op.name = <<"A">>
    /\ last_op.present
    /\ last_op.prev_op = "add"
    /\ last_op.prev_name = <<"a">>
    /\ Lookup(bot_plugins, <<"a">>) = <<last_op.plugin>>

\* C9: remove_plugin(n) right after add_plugin(h), n a case variant of h's
\* name, returns Some, removes the entry of h and no other, and a lookup of
\* the name then finds nothing.
C9_AddThenRemove ==
    [][(/\ last_op.op = "add"
        /\ last_op'.op = "remove"
        /\ ToLowercase(last_op'.name) = ToLowercase(last_op.name))
       => (/\ last_op'.ret = "Some"
           /\ DOMAIN bot_plugins' = DOMAIN bot_plugins \ {ToLowercase(last_op.name)}
           /\ Cardinality(DOMAIN bot_plugins') = Cardinality(DOMAIN bot_plugins) - 1
           /\ \A k \in DOMAIN bot_plugins' : bot_plugins'[k] = bot_plugins[k]
           /\ Lookup(bot_plugins', last_op'.name) = << >>
           /\ Lookup(bot_plugins', last_op.name) = << >>)]_vars

\* C9 witness: "a" was added and then removed as "A", another plugin staying.
C9_Witness ==
    /\ last_op.op = "remove"
    /\ last_op.name = <<"A">>
    /\ last_op.ret = "Some"
    /\ last_op.prev_op = "add"
    /\ last_op.prev_name = <<"a">>
    /\ bot_plugins # EmptyMap

\* C10: remove_plugin of a name no registered plugin has, under case folding,
\* returns None and leaves the registry as it was.
C10_RemoveUnknown ==
    [][(/\ last_op' # last_op
        /\ last_op'.op = "remove"
        /\ ~NameRegistered(bot_plugins, last_op'.name))
       => (/\ last_op'.ret = "None"
           /\ bot_plugins' = bot_plugins)]_vars

\* C10 witness: a name was removed that a non-empty registry did not hold.
C10_Witness ==
    /\ last_op.op = "remove"
    /\ last_op.ret = "None"
    /\ ~last_op.present
    /\ bot_plugins # EmptyMap

\* The handlers of the round in flight: those whose execute was called and
\* those the loop has yet to visit.
ProbeSet == ExecutedNames \cup pending

\* C11: a dispatch round probes exactly the handlers that were in the
\* dispatcher's registry when the round started: the round starts with that
\* set to probe, no step of the round changes the set, the round ends with
\* execute called once on each of them, and a register or unregister made
\* on the Bot, in flight or not, changes neither the calls made nor the
\* handlers still to visit.
C11_RoundProbesSnapshot ==
    [][/\ (pc = "idle" /\ pc' = "execute_plugins") => ProbeSet' = DOMAIN plugins
       /\ (pc = "execute_plugins" /\ pc' = "execute_plugins") => ProbeSet' = ProbeSet
       /\ (pc = "execute_plugins" /\ pc' # "execute_plugins")
            => (/\ ExecutedNames' = ProbeSet
                /\ Len(executed') = Cardinality(ProbeSet))
       /\ late' # late => (executed' = executed /\ pending' = pending)]_vars

\* C11 witness: a round has ended with execute called on the handlers of the
\* dispatcher's registry, after a call on the Bot made while that round was
\* in flight left the Bot's registry with other names.
C11_Witness ==
    /\ pc = "idle"
    /\ message.kind # "NONE"
    /\ \E i \in DOMAIN late : late[i] = message.id
    /\ ExecutedNames = DOMAIN plugins
    /\ DOMAIN bot_plugins # DOMAIN plugins

\* The sender of msg makes it a bridge message under the options o: the
\* relay format yields a username for its nick, or its nick is bridge_name.
SenderQualifies(o, msg) ==
    \/ /\ o.bridge_relay_format # << >>
       /\ captures(o.bridge_relay_format[1], source_nickname(msg)).username # << >>
    \/ o.bridge_name = <<source_nickname(msg)>>

\* The ignore pattern of the options o is configured and matches the text.
IgnoreMatches(o, text) ==
    o.bridge_ignore_regex # << >> /\ is_match(o.bridge_ignore_regex[1], text)

Staged == inbound.kind = "PRIVMSG" /\ options # NoOptions

\* The relay format of the options o is configured and matches the nick.
RelayMatches(o, nick) ==
    o.bridge_relay_format # << >> /\ is_match(o.bridge_relay_format[1], nick)

\* The username the relay format captures from the nick: << >> when it is
\* not configured, does not match, or matches without a username group.
RelayUser(o, nick) ==
    IF RelayMatches(o, nick)
    THEN captures(o.bridge_relay_format[1], nick).username
    ELSE << >>

\* What the content pattern of o captures from the text.
ContentCaps(o, text) ==
    IF o.bridge_regex # << >> THEN captures(o.bridge_regex[1], text) ELSE NoCaps

\* Steps 4 to 8 were applied to the message: it was dropped when the ignore
\* pattern matches its content; otherwise it was handed on, the content
\* pattern was tried on it, and a user was derived when either pattern
\* named one.
StepsApplied ==
    LET o == options[1]
    IN  IF IgnoreMatches(o, inbound.content)
        THEN bridged.dropped
        ELSE /\ ~bridged.dropped
             /\ bridged.text = ContentCaps(o, inbound.content).message
             /\ (bridged.user # << >>) <=>
                    \/ RelayUser(o, source_nickname(inbound)) # << >>
                    \/ ContentCaps(o, inbound.content).username # << >>

\* The bridge stage stopped at step 3: the message is handed on as it came.
StepsSkipped ==
    /\ ~bridged.dropped
    /\ bridged.user = << >>
    /\ bridged.text = << >>
    /\ message = inbound

\* C13 as stated: whenever the relay format matches the sender, steps 4 to 8
\* are applied, whether or not the match yields a username and whether or
\* not the sender is bridge_name.
C13_RelayMatchQualifies ==
    (Staged /\ RelayMatches(options[1], source_nickname(inbound))) => StepsApplied

\* C13: when the relay format matches the sender and the match yields a
\* username, steps 4 to 8 are applied, whether or not the sender is
\* bridge_name; when the match yields no username, they are applied if the
\* sender is bridge_name and the message is handed on unchanged if not.
C13_RelayUsernameQualifies ==
    (Staged /\ RelayMatches(options[1], source_nickname(inbound)))
    => IF \/ RelayUser(options[1], source_nickname(inbound)) # << >>
          \/ options[1].bridge_name = <<source_nickname(inbound)>>
       THEN StepsApplied
       ELSE StepsSkipped

\* C13 witness: the relay format matched the nick u- without a username, the
\* sender is not bridge_name, the ignore pattern matches the content, and
\* the message was handed on as it came.
C13_Witness ==
    /\ Staged
    /\ RelayMatches(options[1], source_nickname(inbound))
    /\ RelayUser(options[1], source_nickname(inbound)) = << >>
    /\ options[1].bridge_name # <<source_nickname(inbound)>>
    /\ IgnoreMatches(options[1], inbound.content)
    /\ ContentCaps(options[1], inbound.content).matched
    /\ message = inbound

\* C14: a PRIVMSG whose sender neither matches the relay format nor is
\* bridge_name leaves the bridge stage as it came, sender and content, and
\* is not dropped, whatever the ignore and content patterns match.
C14_OtherSendersUntouched ==
    (/\ Staged
     /\ ~RelayMatches(options[1], source_nickname(inbound))
     /\ options[1].bridge_name # <<source_nickname(inbound)>>)
    => StepsSkipped

\* C14 witness: the user n sent a line that both the ignore pattern and the
\* content pattern match to a session with a relay format and a bridge
\* name, and the line was handed on as it came.
C14_Witness ==
    /\ Staged
    /\ source_nickname(inbound) = <<"n">>
    /\ options[1].bridge_relay_format # << >>
    /\ options[1].bridge_name # << >>
    /\ IgnoreMatches(options[1], inbound.content)
    /\ ContentCaps(options[1], inbound.content).username # << >>
    /\ message = inbound
    /\ ~bridged.dropped

\* The text s without its zero width spaces.
NoZws(s) == SelectSeq(s, LAMBDA c : c # ZWS)

\* The user u as the bridge stage may substitute it: as captured, or with
\* its zero width spaces removed.
AsSubstituted(u) == IF u = << >> THEN {<< >>} ELSE {u, <<NoZws(u[1])>>}

\* C15: for a bridge message that is not dropped, the derived bridge user is
\* the relay format's username when there is one, also when the content
\* pattern captures a username too; it is the content pattern's username
\* when the relay format yielded none.
C15_UsernamePrecedence ==
    (/\ Staged
     /\ SenderQualifies(options[1], inbound)
     /\ ~bridged.dropped)
    => LET ru == RelayUser(options[1], source_nickname(inbound))
           cu == ContentCaps(options[1], inbound.content).username
       IN  IF ru # << >>
           THEN bridged.user \in AsSubstituted(ru)
           ELSE bridged.user \in AsSubstituted(cu)

\* C15 witness: the relay format named u, the content pattern named v, and
\* the derived bridge user is u.
C15_Witness ==
    /\ Staged
    /\ RelayUser(options[1], source_nickname(inbound)) = <<<<"u">>>>
    /\ ContentCaps(options[1], inbound.content).username = <<<<"v">>>>
    /\ bridged.user = <<<<"u">>>>

\* C16: for a bridge message that is not dropped, the content after the
\* bridge stage is the content pattern's message capture when the pattern
\* matches and captures one, and the original content otherwise; the message
\* is still a PRIVMSG to the original target.
C16_ContentRewrite ==
    (/\ Staged
     /\ SenderQualifies(options[1], inbound)
     /\ ~bridged.dropped)
    => LET cm == ContentCaps(options[1], inbound.content).message
       IN  /\ message.content = IF cm # << >> THEN cm[1] ELSE inbound.content
           /\ message.target = inbound.target
           /\ message.kind = "PRIVMSG"
           /\ message.id = inbound.id

\* C16 witness: the bridge bot's line "v:.A x" went on as ".A x" to the
\* same target.
C16_Witness ==
    /\ Staged
    /\ inbound.content = <<"v", ":", ".", "A", " ", "x">>
    /\ message.content = <<".", "A", " ", "x">>
    /\ message.target = inbound.target
    /\ bridged.text = <<message.content>>

\* C17: after the bridge stage of a message that is not dropped, the prefix
\* is the original prefix with every occurrence of the sender's nick
\* replaced by the derived bridge user when one was derived, and the
\* original prefix when none was.
C17_PrefixSubstitution ==
    (Staged /\ ~bridged.dropped)
    => IF bridged.user # << >>
       THEN message.prefix =
                Replace(inbound.prefix, source_nickname(inbound), bridged.user[1])
       ELSE message.prefix = inbound.prefix

\* C17 witness: the bridge bot r!r@h relayed a line of v, and the prefix
\* became v!v@h: the r of the user name was replaced too.
C17_Witness ==
    /\ Staged
    /\ inbound.prefix = <<"r", "!", "r", "@", "h">>
    /\ bridged.user = <<<<"v">>>>
    /\ message.prefix = <<"v", "!", "v", "@", "h">>

\* bridge_remove_zws is enabled in o: it is set to "true" in some casing.
ZwsOn(o) ==
    /\ o.bridge_remove_zws # << >>
    /\ ToLowercase(o.bridge_remove_zws[1]) = <<"t", "r", "u", "e">>

\* The username the patterns captured, the relay format's first.
Captured(o, msg) ==
    IF RelayUser(o, source_nickname(msg)) # << >>
    THEN RelayUser(o, source_nickname(msg))
    ELSE ContentCaps(o, msg.content).username

\* C18: when a username was captured for a bridge message that is not
\* dropped, the bridge user substituted is, with remove_zws enabled, the
\* captured username without its zero width spaces, and has none; with
\* remove_zws not enabled it is the captured username as it is.
C18_RemoveZws ==
    (/\ Staged
     /\ SenderQualifies(options[1], inbound)
     /\ ~bridged.dropped
     /\ Captured(options[1], inbound) # << >>)
    => IF ZwsOn(options[1])
       THEN /\ bridged.user = <<NoZws(Captured(options[1], inbound)[1])>>
            /\ \A i \in DOMAIN bridged.user[1] : bridged.user[1][i] # ZWS
       ELSE bridged.user = Captured(options[1], inbound)

\* C18 witness: remove_zws is "True", the relayed nick gave the username
\* u+ZWS, and u was substituted into the prefix.
C18_Witness ==
    /\ Staged
    /\ options[1].bridge_remove_zws = <<<<"T", "r", "u", "e">>>>
    /\ Captured(options[1], inbound) = <<<<"u", ZWS>>>>
    /\ bridged.user = <<<<"u">>>>
    /\ message.prefix = <<"u", "!", "x", "@", "h">>

\* What the consumers of the current message were given: every execute call
\* and every execute_threaded thread of the round has the message the bridge
\* stage left, the command is parsed from that message, its source is the
\* derived bridge user and its tokens are those of the derived text, and the
\* command thread carries that command less its first token.
ConsumersSeeRewritten ==
    /\ \A i \in DOMAIN executed : executed[i].message = message
    /\ \A w \in workers :
          (w.round = message.id /\ w.kind = "execute_threaded") => w.message = message
    /\ command = try_from(prefix, message)
    /\ command # << >> =>
          /\ bridged.user # << >> => command[1].source = bridged.user[1]
          /\ bridged.text # << >> =>
                /\ StartsWith(bridged.text[1], prefix)
                /\ command[1].tokens =
                      SplitWhitespace(SubSeq(bridged.text[1], Len(prefix) + 1,
                                             Len(bridged.text[1])))
          /\ \A w \in workers :
                (w.round = message.id /\ w.kind = "command") =>
                    /\ w.command.source = command[1].source
                    /\ w.command.tokens = Tail(command[1].tokens)

\* C19: the bridge stage acts once on an inbound message, before the parser
\* and the fan-out: while the message is being processed the rewritten
\* message, the stage's outcome and the parsed command do not change, and
\* the parser, every execute and every execute_threaded are given the
\* rewritten message.
C19_BridgeOnceBeforeConsumers ==
    [][/\ ConsumersSeeRewritten'
       /\ inbound' = inbound =>
             (message' = message /\ bridged' = bridged /\ command' = command)]_vars

\* C19 witness: the bridge bot's "v:.A x" was rewritten; both handlers were
\* probed with the rewritten message, a thread ran execute_threaded on it,
\* and the command thread of plugin a has source v and the token x.
C19_Witness ==
    /\ pc = "idle"
    /\ source_nickname(inbound) = <<"r">>
    /\ message.content = <<".", "A", " ", "x">>
    /\ source_nickname(message) = <<"v">>
    /\ Len(executed) = 2
    /\ \E w \in workers :
          /\ w.kind = "execute_threaded"
          /\ w.state = "finished"
          /\ w.message = message
    /\ \E w \in workers :
          /\ w.kind = "command"
          /\ w.round = message.id
          /\ w.command.source = <<"v">>
          /\ w.command.tokens = <<<<"x">>>>

\* C20: a message of a session without options, and a message that is not a
\* PRIVMSG, passes the bridge stage as it came and is not dropped: the
\* fan-out starts over the whole registry with it, and every execute call
\* of its round is given it.
C20_BridgeInactive ==
    [][/\ (/\ inbound' # inbound
           /\ (options = NoOptions \/ inbound'.kind # "PRIVMSG"))
          => (/\ message' = inbound'
              /\ ~bridged'.dropped
              /\ bridged'.user = << >>
              /\ bridged'.text = << >>
              /\ pc' = "execute_plugins"
              /\ pending' = DOMAIN plugins
              /\ returned' = returned)
       /\ (options = NoOptions \/ inbound.kind # "PRIVMSG")
          => \A i \in DOMAIN executed' : executed'[i].message = inbound]_vars

\* C20 witness: a NOTICE of the bridge bot whose text the ignore and content
\* patterns of the session match went to both handlers as it came.
C20_Witness ==
    /\ options # NoOptions
    /\ inbound.kind = "NOTICE"
    /\ SenderQualifies(options[1], inbound)
    /\ IgnoreMatches(options[1], inbound.content)
    /\ ContentCaps(options[1], inbound.content).matched
    /\ Len(executed) = 2
    /\ \A i \in DOMAIN executed : executed[i].message = inbound

\* The text begins with the prefix pre.
BeginsWith(text, pre) ==
    /\ Len(pre) <= Len(text)
    /\ \A i \in 1..Len(pre) : text[i] = pre[i]

\* The positions of text where a word starts: a character that is not
\* whitespace and follows whitespace or nothing.
WordStarts(text) ==
    {i \in 1..Len(text) :
        /\ text[i] # " "
        /\ (i = 1 \/ text[i - 1] = " ")}

\* The words of text, in order: the k-th goes from the k-th word start to
\* the last character before the next whitespace.
Words(text) ==
    [k \in 1..Cardinality(WordStarts(text)) |->
        LET s == CHOOSE i \in WordStarts(text) :
                    Cardinality({j \in WordStarts(text) : j < i}) = k - 1
            e == CHOOSE j \in s..Len(text) :
                    /\ \A n \in s..j : text[n] # " "
                    /\ (j = Len(text) \/ text[j + 1] = " ")
        IN  SubSeq(text, s, e)]

\* C21: a Command is parsed from a message if and only if it is a PRIVMSG
\* whose text begins with the prefix; its tokens are the words of the rest
\* of the text in order, none for the bare prefix, and its source and
\* target are the sender's nick and the message's target. ".te b h" gives
\* [te, b, h], "te b" gives no Command, "." gives a Command without tokens.
C21_CommandParsing ==
    inbound.kind # "NONE" =>
        /\ (command # << >>) <=>
              (inbound.kind = "PRIVMSG" /\ BeginsWith(inbound.content, prefix))
        /\ command # << >> =>
              /\ command[1].tokens =
                    Words(SubSeq(inbound.content, Len(prefix) + 1, Len(inbound.content)))
              /\ command[1].source = source_nickname(inbound)
              /\ command[1].target = inbound.target
        /\ inbound.content = <<".", "t", "e", " ", "b", " ", "h">> =>
              command = <<[tokens |-> <<<<"t", "e">>, <<"b">>, <<"h">>>>,
                           source |-> <<"n">>, target |-> "#c"]>>
        /\ inbound.content = <<"t", "e", " ", "b">> => command = << >>
        /\ inbound.content = <<".">> =>
              command = <<[tokens |-> << >>, source |-> <<"n">>, target |-> "#c"]>>

\* C21 witness: ".te  b", with two blanks, was parsed into the tokens te, b.
C21_Witness ==
    /\ inbound.content = <<".", "t", "e", " ", " ", "b">>
    /\ command # << >>
    /\ command[1].tokens = <<<<"t", "e">>, <<"b">>>>
    /\ command[1].source = <<"n">>

\* C22: a failed spawn drops its unit of work. An execute that returned
\* RequiresThread and whose spawn failed has no execute_threaded thread, at
\* that step or at any later one; a command whose spawn failed
\* (handle_command returned Err) has no command thread; no thread is ever
\* created for a message other than the one being processed; and the step
\* of the failed spawn leaves the threads as they were and the loop going
\* on with the handlers that remain.
C22_SpawnFailureDrops ==
    [][/\ \A i \in DOMAIN executed' :
             (executed'[i].status = "RequiresThread" /\ ~executed'[i].spawned) =>
                 ~\E w \in workers' :
                     /\ w.kind = "execute_threaded"
                     /\ w.name = executed'[i].name
                     /\ w.round = message'.id
       /\ handled' = "Err" =>
             ~\E w \in workers' : w.kind = "command" /\ w.round = message'.id
       /\ \A w \in workers' \ workers : w.state = "spawned" => w.round = message'.id
       /\ (/\ Len(executed') = Len(executed) + 1
           /\ executed'[Len(executed')].status = "RequiresThread"
           /\ ~executed'[Len(executed')].spawned)
          => (/\ workers' = workers
              /\ pc' = "execute_plugins"
              /\ pending' = pending \ {executed'[Len(executed')].name})]_vars

\* C22 witness: the first handler's spawn failed, the second handler was
\* probed after it, the command's spawn failed too, and the message has no
\* thread at all.
C22_Witness ==
    /\ pc = "idle"
    /\ Len(executed) = 2
    /\ executed[1].status = "RequiresThread"
    /\ ~executed[1].spawned
    /\ handled = "Err"
    /\ ~\E w \in workers : w.round = message.id

\* C23: the dispatcher never sends on the session. Nothing is ever sent in
\* the dispatcher's name, and a step in which something is sent is a
\* handler's call: an execute of the loop, sending as "execute", or the run
\* of a thread, sending as its execute_threaded or command. The steps that
\* start a message, log a failed probe or a failed spawn, or route a
\* command, matched or not, send nothing.
C23_DispatcherNeverSends ==
    [][/\ "dispatcher" \notin sent'
       /\ sent' # sent =>
             \/ /\ Len(executed') = Len(executed) + 1
                /\ sent' \ sent = {"execute"}
             \/ \E w \in workers :
                   /\ w.state = "spawned"
                   /\ w \notin workers'
                   /\ sent' \ sent = {w.kind}]_vars

\* C23 witness: a probe failed, the command named no plugin and was handled
\* with Ok, and the only sends are those of the handler's execute.
C23_Witness ==
    /\ pc = "idle"
    /\ handled = "Ok"
    /\ command # << >>
    /\ ~NameRegistered(plugins, command[1].tokens[1])
    /\ \E i \in DOMAIN executed : executed[i].status = "Err"
    /\ sent = {"execute"}


\* ------------------------------------------------- the process and its threads

\* The host runs the reactor, and with it the handler closure, on the main
\* thread: a panic in process_msg unwinds out of reactor.run and main, and
\* the process exits. The threads it had spawned end with it, whether
\* they have run their call or not.
ProcessExit ==
    /\ pc = "panicked"
    /\ pc' = "exited"
    /\ UNCHANGED <<message, command, iter, pending, executed, workers, handled,
                   returned, connected, plugins, inbound, bridged, sent>>
    /\ UNCHANGED bot_vars
    /\ UNCHANGED env_vars
    /\ UNCHANGED handler_vars

InitLive == Connected(<<1>>, NoOptions)

NextLive ==
    \/ \E m \in Messages : ProcessMsg(m)
    \/ \E name \in pending, status \in Statuses, ok \in BOOLEAN :
            ExecutePlugin(name, status, ok)
    \/ \E ok \in BOOLEAN : HandleCommand(ok)
    \/ \E w \in workers, res \in {"Ok", "Err"} : RunWorker(w, res)
    \/ ProcessExit

\* Fair scheduling: a spawned thread that can run does run, the dispatch
\* thread finishes the round it is in, and a panic ends the process.
SpecLive ==
    /\ InitLive
    /\ [][NextLive]_vars
    /\ WF_vars(\E w \in workers, res \in {"Ok", "Err"} : RunWorker(w, res))
    /\ WF_vars(\E name \in pending, status \in Statuses, ok \in BOOLEAN :
                    ExecutePlugin(name, status, ok))
    /\ WF_vars(\E ok \in BOOLEAN : HandleCommand(ok))
    /\ WF_vars(ProcessExit)

\* C24: every handler whose execute returned RequiresThread and whose spawn
\* succeeded eventually has execute_threaded run on its worker. Stated in
\* the form a finite run refutes: a thread spawned for execute_threaded
\* that has not run yet can still run, the process has not ended under it.
C24_ThreadedWorkerEventuallyRuns ==
    \A w \in workers :
        (w.kind = "execute_threaded" /\ w.state = "spawned") => pc # "exited"

\* The dispatch thread's own next step: the delivery of the next message
\* when it is idle, the next execute probe of the round it is in, or the
\* end of the round once every probe has returned.
DispatchCanStep ==
    /\ (pc = "idle" /\ inbound.id < MaxMsgs) =>
            ENABLED (\E m \in Messages : ProcessMsg(m))
    /\ (pc = "execute_plugins" /\ pending # {}) =>
            ENABLED (\E name \in pending, status \in Statuses, ok \in BOOLEAN :
                        ExecutePlugin(name, status, ok))
    /\ (pc = "execute_plugins" /\ pending = {}) =>
            ENABLED (\E ok \in BOOLEAN : HandleCommand(ok))

\* C25: the dispatch thread never waits for a worker: whatever threads are
\* still running or stalled, of this round or of an earlier one, the
\* dispatch thread can take its next step; the round ends once the probes
\* have returned and the next message is probed and routed.
C25_DispatchNeverWaits ==
    (\E w \in workers : w.state = "spawned") => DispatchCanStep

\* A worker of the first message has not terminated, that message's
\* process_msg has returned, and the second message is through its probes.
C25_Witness ==
    /\ pc = "execute_plugins"
    /\ pending = {}
    /\ returned >= 1
    /\ Len(executed) >= 1
    /\ \E w \in workers : w.state = "spawned" /\ w.round < message.id
    /\ \E w \in workers : w.state = "spawned" /\ w.round = message.id

\* C26: after the bridge stage the message is never mutated. Within a
\* round the message stays what the bridge stage left; a thread spawned
\* for execute_threaded holds the very value the probe of that round was
\* given, and it holds that value unchanged for as long as it exists,
\* through the return of process_msg and into later rounds.
C26_MessageImmutable ==
    [][/\ inbound'.id = inbound.id => message' = message
       /\ \A w \in workers' :
            w.kind = "execute_threaded" =>
                \/ \E v \in workers :
                      /\ v.kind = w.kind
                      /\ v.name = w.name
                      /\ v.round = w.round
                      /\ v.message = w.message
                \/ /\ w.state = "spawned"
                   /\ Len(executed') = Len(executed) + 1
                   /\ w.round = message.id
                   /\ w.message = message
                   /\ w.message = executed'[Len(executed')].message]_vars

\* The bridge stage rewrote the message, process_msg has returned for it,
\* and a thread spawned in that round has yet to call execute_threaded.
C26_Witness ==
    /\ pc = "idle"
    /\ returned = message.id
    /\ message.content # inbound.content
    /\ \E w \in workers :
          /\ w.kind = "execute_threaded"
          /\ w.state = "spawned"
          /\ w.round = message.id
          /\ w.message = message

\* C30: for one inbound message the order is fixed. The command is parsed
\* in the step that delivers the message, before the first execute probe,
\* and does not change during the round; the thread for the command is
\* spawned in a step of its own, after every entry of the cloned registry
\* has been probed; and no probe is made once that thread exists. Only
\* threads spawned for execute_threaded exist while the probes go on.
C30_ParseProbeRoute ==
    [][/\ command' # command =>
            /\ inbound'.id = inbound.id + 1
            /\ executed' = << >>
       /\ Len(executed') = Len(executed) + 1 =>
            /\ command' = command
            /\ \A w \in workers' :
                  (w.kind = "command" /\ w.round = message.id) => FALSE
       /\ \A w \in workers' \ workers :
            w.kind = "command" =>
                /\ pending = {}
                /\ executed' = executed
                /\ {executed[i].name : i \in 1..Len(executed)} = DOMAIN iter
                /\ w.round = message.id
                /\ w.command.tokens = Tail(command[1].tokens)]_vars

\* The round of a command for a registered plugin: every entry was probed,
\* a thread of a probe is still running, and the command's thread has been
\* spawned beside it.
C30_Witness ==
    /\ pc = "idle"
    /\ Len(executed) >= 2
    /\ {executed[i].name : i \in 1..Len(executed)} = DOMAIN iter
    /\ \E w \in workers :
          w.kind = "execute_threaded" /\ w.round = message.id /\ w.state = "spawned"
    /\ \E w \in workers :
          w.kind = "command" /\ w.round = message.id /\ w.state = "spawned"

\* ------------------------------------------------------------- Factoids::add

\* The names the concurrent adds are for.
FactoidNames == {"f", "g"}

\* The plausible slip: the filter on the name is forgotten.
count_all(db, name) == Cardinality(DOMAIN db)

\* Database::count of the HashMap store: the entries under the name.
count(db, name) == Cardinality({k \in DOMAIN db : k[1] = name})

\* Database::insert of the HashMap store: HashMap::insert puts the factoid
\* under (name, idx) whether or not the key was there, and the response
\* tells which it was.
insert(db, name, idx, content) ==
    [db |-> Insert(db, <<name, idx>>, content),
     response |-> IF <<name, idx>> \in DOMAIN db
                  THEN "Factoid was overwritten"
                  ELSE "Success"]

\* Factoids::command with the tokens "add", name, content..., on the
\* thread handle_command spawned for it: add takes the name off the tokens.
FactoidsAdd(t, name) ==
    /\ adders[t].pc = "idle"
    /\ adders' = [adders EXCEPT ![t] = [NoAdd EXCEPT !.pc = "count", !.name = name]]
    /\ UNCHANGED <<factoids, tells, evaluated>>
    /\ UNCHANGED thread_vars
    /\ UNCHANGED <<connected, plugins>>
    /\ UNCHANGED bot_vars
    /\ UNCHANGED dispatch_vars
    /\ UNCHANGED env_vars

\* let count = try_lock!(self.factoids).count(&name): the guard is a
\* temporary of this statement, the lock is released at its end.
FactoidsCount(t) ==
    /\ adders[t].pc = "count"
    /\ adders' = [adders EXCEPT ![t].pc = "insert",
                                ![t].count = count(factoids, adders[t].name)]
    /\ UNCHANGED <<factoids, tells, evaluated>>
    /\ UNCHANGED thread_vars
    /\ UNCHANGED <<connected, plugins>>
    /\ UNCHANGED bot_vars
    /\ UNCHANGED dispatch_vars
    /\ UNCHANGED env_vars

\* try_lock!(self.factoids).insert(&factoid) with idx: count, under a lock
\* taken anew, and the notice that reports the response.
FactoidsInsert(t) ==
    /\ adders[t].pc = "insert"
    /\ LET r == insert(factoids, adders[t].name, adders[t].count, t)
       IN  /\ factoids' = r.db
           /\ adders' = [adders EXCEPT ![t].pc = "done", ![t].response = r.response]
    /\ sent' = sent \cup {"command"}
    /\ UNCHANGED <<tells, evaluated>>
    /\ UNCHANGED thread_vars
    /\ UNCHANGED <<pc, message, command, iter, pending, executed, workers, handled,
                   returned, inbound, bridged, connected, plugins>>
    /\ UNCHANGED bot_vars
    /\ UNCHANGED env_vars

\* Database::get of the HashMap store: Some(factoid) when the key is there.
get(db, name, idx) ==
    IF <<name, idx>> \in DOMAIN db THEN <<db[<<name, idx>>]>> ELSE << >>

\* Factoids::command with the tokens "get", name: get is entered with one
\* token, the name.
FactoidsGet(name) ==
    /\ getter.pc \in {"idle", "done"}
    /\ getter' = [NoGet EXCEPT !.pc = "count", !.name = name]
    /\ UNCHANGED <<factoids, adders, tells, evaluated, tell_run, random_index>>
    /\ UNCHANGED <<connected, plugins>>
    /\ UNCHANGED bot_vars
    /\ UNCHANGED dispatch_vars
    /\ UNCHANGED env_vars

\* let count = try_lock!(self.factoids).count(name), and the notice that
\* ends get when there is no version.
FactoidsGetCount ==
    /\ getter.pc = "count"
    /\ LET c == count(factoids, getter.name)
       IN  IF c < 1
           THEN /\ getter' = [getter EXCEPT !.pc = "done", !.count = c,
                                             !.result = "missing"]
                /\ sent' = sent \cup {"command"}
           ELSE /\ getter' = [getter EXCEPT !.pc = "get", !.count = c]
                /\ UNCHANGED sent
    /\ UNCHANGED <<factoids, adders, tells, evaluated, tell_run, random_index>>
    /\ UNCHANGED <<pc, message, command, iter, pending, executed, workers, handled,
                   returned, inbound, bridged, connected, plugins>>
    /\ UNCHANGED bot_vars
    /\ UNCHANGED env_vars

\* try_lock!(self.factoids).get(name, count - 1) under a lock taken anew,
\* and the reply: the factoid, or the notice that it does not exist.
FactoidsGetFetch ==
    /\ getter.pc = "get"
    /\ LET f == get(factoids, getter.name, getter.count - 1)
       IN  getter' = IF f = << >>
                     THEN [getter EXCEPT !.pc = "done", !.result = "missing"]
                     ELSE [getter EXCEPT !.pc = "done", !.result = "found",
                                         !.content = f[1]]
    /\ sent' = sent \cup {"command"}
    /\ UNCHANGED <<factoids, adders, tells, evaluated, tell_run, random_index>>
    /\ UNCHANGED <<pc, message, command, iter, pending, executed, workers, handled,
                   returned, inbound, bridged, connected, plugins>>
    /\ UNCHANGED bot_vars
    /\ UNCHANGED env_vars

InitFactoids == Connected(<<1>>, NoOptions)

NextFactoids ==
    \/ \E t \in Adders, name \in FactoidNames : FactoidsAdd(t, name)
    \/ \E t \in Adders : FactoidsCount(t)
    \/ \E t \in Adders : FactoidsInsert(t)
    \/ \E name \in FactoidNames : FactoidsGet(name)
    \/ FactoidsGetCount
    \/ FactoidsGetFetch

SpecFactoids == InitFactoids /\ [][NextFactoids]_vars

\* C27: concurrent adds for one name lose no update: two adds that have
\* read their index hold different indices, no insert reports an
\* overwritten factoid, and once every add has returned the count of a
\* name is the number of adds made for it.
C27_NoLostUpdate ==
    /\ \A t, u \in Adders :
          (/\ t # u
           /\ adders[t].pc \in {"insert", "done"}
           /\ adders[u].pc \in {"insert", "done"}
           /\ adders[t].name = adders[u].name)
          => adders[t].count # adders[u].count
    /\ \A t \in Adders : adders[t].response # "Factoid was overwritten"
    /\ (\A t \in Adders : adders[t].pc \in {"idle", "done"}) =>
          \A name \in FactoidNames :
              count(factoids, name) =
                  Cardinality({t \in Adders : adders[t].pc = "done"
                                              /\ adders[t].name = name})

\* ------------------------------------------------- the handlers of the repository

Handlers == {"Currency", "Emoji", "Tell", "Unicode", "UrlTitles"}

\* Plugin::name of a handler: derive(PluginName) gives the struct's name.
HandlerName(h) ==
    CASE h = "Currency" -> <<"C", "u", "r", "r", "e", "n", "c", "y">>
      [] h = "Emoji" -> <<"E", "m", "o", "j", "i">>
      [] h = "Tell" -> <<"T", "e", "l", "l">>
      [] h = "Unicode" -> <<"U", "n", "i", "c", "o", "d", "e">>
      [] h = "UrlTitles" -> <<"U", "r", "l", "T", "i", "t", "l", "e", "s">>

\* The registry after add_plugin of each handler of hs.
HandlerRegistry(hs) ==
    [k \in {ToLowercase(HandlerName(h)) : h \in hs} |->
        CHOOSE h \in hs : ToLowercase(HandlerName(h)) = k]

\* URL_RE, (^|\s)(https?://\S+), matches: a scheme at the start of the
\* text or after whitespace, followed by a character that is not one.
Http == <<"h", "t", "t", "p", ":", "/", "/">>
Https == <<"h", "t", "t", "p", "s", ":", "/", "/">>
url_is_match(text) ==
    \E i \in 1..Len(text), scheme \in {Http, Https} :
        /\ i = 1 \/ IsWhitespace(text[i - 1])
        /\ i + Len(scheme) <= Len(text)
        /\ SubSeq(text, i, i + Len(scheme) - 1) = scheme
        /\ ~IsWhitespace(text[i + Len(scheme)])

\* Emoji::is_emoji: the character is in one of the symbol ranges; "*"
\* stands for U+2600, a character of the Misc symbols range.
is_emoji(c) == c = "*"

\* Emoji::emoji: Some(description) when the text holds an emoji.
emoji(text) == \E i \in 1..Len(text) : is_emoji(text[i])

\* client.current_nickname()
current_nickname == <<"f">>

\* str::eq_ignore_ascii_case
eq_ignore_ascii_case(a, b) == ToLowercase(a) = ToLowercase(b)

\* str::split(',') with the empty pieces filtered out.
RECURSIVE SplitComma(_)
SplitComma(s) ==
    IF s = << >> THEN << >>
    ELSE LET piece == UpTo(s, ",")
             rest == IF Len(piece) < Len(s)
                     THEN SubSeq(s, Len(piece) + 2, Len(s))
                     ELSE << >>
         IN  (IF piece = << >> THEN << >> ELSE <<piece>>) \o SplitComma(rest)

\* The store behind Tell: insert_tell appends a tell, get_tells gives the
\* tells of a receiver (NotFound when there are none), delete_tells
\* removes them.
insert_tell(store, tell) == Append(store, tell)
get_tells(store, receiver) == SelectSeq(store, LAMBDA t : t.receiver = receiver)
delete_tells(store, receiver) == SelectSeq(store, LAMBDA t : t.receiver # receiver)

\* What the handlers' calls are given from outside: which send on the
\* session fails (0: none, k: the k-th), whether the receiver of a tell is
\* in a channel, whether a download (a title, a conversion rate) succeeds.
Env == [send_fails : 0..2, online : BOOLEAN, fetch_ok : BOOLEAN]

\* The outcome of a handler call: its return, how many sends on the
\* session went through, and the store of Tell after it.
Outcome(ret, sends, store) == [ret |-> ret, sends |-> sends, tells |-> store]

\* Tell::send_tells(client, receiver): nothing for the bot's own nickname;
\* otherwise, with the lock held, every stored tell of the receiver is
\* sent as a notice, the first failed send returns its error, and only
\* after the last send are the tells deleted.
send_tells(store, receiver, env) ==
    IF current_nickname = receiver
    THEN Outcome("Ok", 0, store)
    ELSE LET mine == get_tells(store, ToLowercase(receiver))
         IN  IF mine = << >>
             THEN Outcome("Ok", 0, store)
             ELSE IF env.send_fails \in 1..Len(mine)
                  THEN Outcome("Err", env.send_fails - 1, store)
                  ELSE Outcome("Ok", Len(mine), delete_tells(store, ToLowercase(receiver)))

\* The plausible slip: Emoji answers from a thread of its own.
execute_emoji_threaded(h, msg, store, env) ==
    IF h = "Emoji" /\ msg.kind = "PRIVMSG" /\ emoji(msg.content)
    THEN Outcome("RequiresThread", 0, store)
    ELSE IF h = "UrlTitles" /\ msg.kind = "PRIVMSG" /\ url_is_match(msg.content)
         THEN Outcome("RequiresThread", 0, store)
         ELSE Outcome("Done", 0, store)

\* Plugin::execute of each handler, on the dispatch thread. Currency and
\* Unicode are done at once; Emoji answers a PRIVMSG that holds emojis;
\* Tell delivers the stored tells of a user who joins; UrlTitles asks for
\* a thread when a PRIVMSG holds a URL.
execute(h, msg, store, env) ==
    CASE h = "Currency" -> Outcome("Done", 0, store)
      [] h = "Unicode" -> Outcome("Done", 0, store)
      [] h = "Emoji" ->
            IF msg.kind = "PRIVMSG" /\ emoji(msg.content)
            THEN IF env.send_fails = 1
                 THEN Outcome("Err", 0, store)
                 ELSE Outcome("Done", 1, store)
            ELSE Outcome("Done", 0, store)
      [] h = "Tell" ->
            IF msg.kind = "JOIN"
            THEN LET r == send_tells(store, source_nickname(msg), env)
                 IN  Outcome(IF r.ret = "Ok" THEN "Done" ELSE "Err", r.sends, r.tells)
            ELSE Outcome("Done", 0, store)
      [] h = "UrlTitles" ->
            IF msg.kind = "PRIVMSG" /\ url_is_match(msg.content)
            THEN Outcome("RequiresThread", 0, store)
            ELSE Outcome("Done", 0, store)

\* The plausible slip: UrlTitles tells the channel when it could not get
\* a title.
execute_threaded_reports(h, msg, store, env) ==
    IF h = "UrlTitles"
    THEN IF msg.kind = "PRIVMSG"
         THEN IF env.send_fails = 1
              THEN Outcome("Err", 0, store)
              ELSE Outcome(IF url_is_match(msg.content) /\ env.fetch_ok
                           THEN "Ok" ELSE "Err", 1, store)
         ELSE Outcome("Ok", 0, store)
    ELSE Outcome("panic", 0, store)

\* Plugin::execute_threaded of each handler, on a spawned thread. Only
\* UrlTitles implements it: the title is fetched and sent; the others
\* panic.
execute_threaded(h, msg, store, env) ==
    IF h = "UrlTitles"
    THEN IF msg.kind = "PRIVMSG"
         THEN IF url_is_match(msg.content) /\ env.fetch_ok
              THEN IF env.send_fails = 1
                   THEN Outcome("Err", 0, store)
                   ELSE Outcome("Ok", 1, store)
              ELSE Outcome("Err", 0, store)
         ELSE Outcome("Ok", 0, store)
    ELSE Outcome("panic", 0, store)

\* The loop of Tell::tell_command over the receivers: one that is the bot,
\* the sender or a user of a channel is online; for any other a tell is
\* stored under the lowercased name.
RECURSIVE tell_receivers(_, _, _, _)
tell_receivers(store, receivers, cmd, env) ==
    IF receivers = << >> THEN store
    ELSE LET receiver == Head(receivers)
             online == \/ eq_ignore_ascii_case(receiver, current_nickname)
                       \/ eq_ignore_ascii_case(receiver, cmd.source)
                       \/ env.online
             tell == [sender |-> cmd.source, receiver |-> ToLowercase(receiver),
                      message |-> SubSeq(cmd.tokens, 2, Len(cmd.tokens))]
         IN  tell_receivers(IF online THEN store ELSE insert_tell(store, tell),
                            Tail(receivers), cmd, env)

\* Tell::tell_command: the store it leaves.
tell_command(store, cmd, env) ==
    IF Len(cmd.tokens) < 2 THEN store
    ELSE tell_receivers(store, SplitComma(cmd.tokens[1]), cmd, env)

\* Plugin::command of each handler, on the thread handle_command spawned:
\* every path ends in one send_notice or send_privmsg, whose error is
\* returned. Tell stores tells before it answers.
command_of(h, cmd, store, env) ==
    LET after == IF /\ h = "Tell"
                    /\ cmd.tokens # << >>
                    /\ cmd.tokens[1] # <<"h", "e", "l", "p">>
                 THEN tell_command(store, cmd, env)
                 ELSE store
    IN  IF env.send_fails = 1
        THEN Outcome("Err", 0, after)
        ELSE Outcome("Ok", 1, after)

\* The plausible slip: evaluate is implemented by calling command, which
\* answers on the session.
evaluate_by_command(h, cmd, store, env) == command_of(h, cmd, store, env)

\* Plugin::evaluate of each handler: the client argument is unused, the
\* text or the error is the return value. Emoji and UrlTitles index
\* tokens[0] and panic on a command without tokens.
evaluate(h, cmd, store, env) ==
    CASE h = "Currency" ->
            IF cmd.tokens = << >> THEN Outcome("Err", 0, store)
            ELSE IF cmd.tokens[1] = <<"h", "e", "l", "p">>
                 THEN Outcome("Ok", 0, store)
                 ELSE IF Len(cmd.tokens) < 3 \/ cmd.tokens[1] # <<"1">>
                      THEN Outcome("Err", 0, store)
                      ELSE Outcome(IF env.fetch_ok THEN "Ok" ELSE "Err", 0, store)
      [] h = "Emoji" ->
            IF cmd.tokens = << >> THEN Outcome("panic", 0, store)
            ELSE Outcome(IF emoji(cmd.tokens[1]) THEN "Ok" ELSE "Err", 0, store)
      [] h = "Tell" -> Outcome("Err", 0, store)
      [] h = "Unicode" ->
            IF cmd.tokens = << >> THEN Outcome("Err", 0, store)
            ELSE Outcome("Ok", 0, store)
      [] h = "UrlTitles" ->
            IF cmd.tokens = << >> THEN Outcome("panic", 0, store)
            ELSE Outcome(IF url_is_match(cmd.tokens[1]) /\ env.fetch_ok
                         THEN "Ok" ELSE "Err", 0, store)

\* The handlers a host registers: any two of them.
HandlerSets == {hs \in SUBSET Handlers : Cardinality(hs) = 2}

\* Message.prefix of a message from the user b.
OtherPrefix == <<"b", "!", "b", "@", "h">>

\* The messages delivered to the handlers: a tell for the absent user b, a
\* text with an emoji and a URL, a command for Emoji, and the users b and
\* n joining.
HandlerMessages ==
    {[id |-> 0, kind |-> "PRIVMSG", prefix |-> UserPrefix, target |-> "#c", content |-> c]
        : c \in {<<".", "t", "e", "l", "l", " ", "b", " ", "h">>,
                 <<"*", " ">> \o Http \o <<"x">>,
                 <<".", "e", "m", "o", "j", "i">>}}
    \cup {[id |-> 0, kind |-> "JOIN", prefix |-> p, target |-> "#c", content |-> << >>]
            : p \in {UserPrefix, OtherPrefix}}

\* The commands a composing caller evaluates.
EvalCommands ==
    {[tokens |-> t, source |-> <<"n">>, target |-> "#c"]
        : t \in {<< >>,
                 <<<<"h", "e", "l", "p">>>>,
                 <<<<"1">>, <<"e">>, <<"u">>>>,
                 <<<<"*">>>>,
                 <<Http \o <<"x">>>>}}

\* One iteration of the for loop of execute_plugins over the handlers of
\* the repository: the status is the one the handler's execute returns.
ExecuteHandler(name, spawn_ok, env) ==
    /\ pc = "execute_plugins"
    /\ name \in pending
    /\ LET r == execute(iter[name], message, tells, env)
       IN  /\ Execute(name, r.ret, spawn_ok, r.sends > 0)
           /\ tells' = r.tells
    /\ UNCHANGED <<factoids, adders, evaluated>>
    /\ UNCHANGED thread_vars

\* A spawned thread runs the handler's execute_threaded or command. A
\* panic in it ends that thread alone.
RunHandler(w, env) ==
    /\ w \in workers
    /\ w.state = "spawned"
    /\ LET r == IF w.kind = "execute_threaded"
                THEN execute_threaded(w.plugin, w.message, tells, env)
                ELSE command_of(w.plugin, w.command, tells, env)
       IN  /\ Run(w, r.ret, r.sends > 0)
           /\ tells' = r.tells
    /\ UNCHANGED <<factoids, adders, evaluated>>
    /\ UNCHANGED thread_vars

\* evaluate is given the client and never uses it: of what comes from
\* outside only the downloads can matter to it.
EvalEnv == {env \in Env : env.send_fails = 0 /\ ~env.online}

\* A caller evaluates a command on a registered handler.
Evaluate(h, cmd, env) ==
    /\ connected
    /\ \E k \in DOMAIN plugins : plugins[k] = h
    /\ LET r == evaluate(h, cmd, tells, env)
       IN  /\ evaluated' = <<[handler |-> h, tokens |-> cmd.tokens, ret |-> r.ret]>>
           /\ sent' = sent \cup (IF r.sends > 0 THEN {"evaluate"} ELSE {})
           /\ tells' = r.tells
    /\ UNCHANGED <<factoids, adders>>
    /\ UNCHANGED thread_vars
    /\ UNCHANGED <<pc, message, command, iter, pending, executed, workers, handled,
                   returned, inbound, bridged, connected, plugins>>
    /\ UNCHANGED bot_vars
    /\ UNCHANGED env_vars

InitHandlers ==
    \E hs \in HandlerSets :
        ConnectedWith(HandlerRegistry(hs), << >>, NoOptions)

NextHandlers ==
    \/ \E m \in HandlerMessages : ProcessMsg(m)
    \/ \E name \in pending, ok \in BOOLEAN, env \in Env : ExecuteHandler(name, ok, env)
    \/ \E ok \in BOOLEAN : HandleCommand(ok)
    \/ \E w \in workers, env \in Env : RunHandler(w, env)
    \/ \E h \in Handlers, cmd \in EvalCommands, env \in EvalEnv : Evaluate(h, cmd, env)

SpecHandlers == InitHandlers /\ [][NextHandlers]_vars

\* The handlers whose execute_threaded is panic!(...).
PanicsByDesign == {"Currency", "Emoji", "Tell", "Unicode"}

\* C29: the handlers whose execute_threaded panics by design never return
\* RequiresThread from execute: no probe of one of them has that status,
\* no thread is ever spawned to call execute_threaded on one of them, and
\* no such thread has ended in a panic.
C29_PanicUnreachable ==
    /\ \A i \in 1..Len(executed) :
          executed[i].plugin \in PanicsByDesign =>
              executed[i].status \in {"Done", "Err"}
    /\ \A w \in workers :
          w.kind = "execute_threaded" =>
              /\ w.plugin \notin PanicsByDesign
              /\ w.result # "panic"

\* Emoji answered a message in its probe, failing to send, the same message
\* made UrlTitles ask for a thread, and that thread has run.
C29_Witness ==
    /\ \E i \in 1..Len(executed) :
          executed[i].plugin = "Emoji" /\ executed[i].status = "Err"
    /\ \E w \in workers :
          /\ w.kind = "execute_threaded"
          /\ w.plugin = "UrlTitles"
          /\ w.state = "finished"

\* C28: evaluate never sends on the session and changes no stored state:
\* a step in which a handler's evaluate is called (or returns something
\* new) leaves what was sent, the tells of Tell and the factoids as they
\* were; whatever it produces is its return value.
C28_EvaluateNoEffect ==
    [][evaluated' # evaluated =>
            /\ sent' = sent
            /\ tells' = tells
            /\ factoids' = factoids
            /\ workers' = workers
            /\ evaluated'[1].ret \in {"Ok", "Err", "panic"}]_vars

\* Tell holds a stored tell and replies have been sent on the session by
\* commands, and evaluate has been called on Tell with a command that its
\* command function would have stored.
C28_Witness ==
    /\ tells # << >>
    /\ "command" \in sent
    /\ evaluated # << >>
    /\ evaluated[1].handler = "Tell"
    /\ Len(evaluated[1].tokens) >= 3

\* C31: Bot::connect captures a copy of the registry. No step after
\* connect changes the registry of the session, whatever is added to or
\* removed from the Bot; every round iterates that registry, and a command
\* is routed to the handler it holds under the command's name.
C31_ConnectCapturesCopy ==
    [][/\ connected => plugins' = plugins
       /\ late' # late => (plugins' = plugins /\ iter' = iter)
       /\ (pc = "idle" /\ pc' = "execute_plugins") => iter' = plugins
       /\ \A w \in workers' \ workers :
            w.kind = "command" =>
                /\ Lookup(plugins, w.name) # << >>
                /\ w.plugin = Lookup(plugins, w.name)[1]]_vars

\* The host removed its only plugin from the Bot between rounds; the
\* session still probed it and routed a command to it.
C31_Witness ==
    /\ pc = "idle"
    /\ late # << >>
    /\ late[1] = 0
    /\ bot_plugins = EmptyMap
    /\ plugins # EmptyMap
    /\ ExecutedNames = DOMAIN plugins
    /\ CommandThreads # {}

\* ----------------------------------------------------------------- UrlTitles

\* The texts UrlTitles is shown: a URL alone, a URL after a word, a URL
\* inside a word, a scheme with nothing after it, and a text without one.
UrlContents == {
    Http \o <<"x">>,
    <<"a", " ">> \o Https \o <<"y">>,
    <<"x">> \o Http \o <<"x">>,
    Http,
    <<"x">> }

UrlMessages ==
    {[id |-> 0, kind |-> "PRIVMSG", prefix |-> UserPrefix, target |-> "#c", content |-> c]
        : c \in UrlContents}
    \cup {[id |-> 0, kind |-> "JOIN", prefix |-> UserPrefix, target |-> "#c",
           content |-> << >>]}

\* A session whose only handler is UrlTitles.
InitUrl == ConnectedWith(HandlerRegistry({"UrlTitles"}), << >>, NoOptions)

NextUrl ==
    \/ \E m \in UrlMessages : ProcessMsg(m)
    \/ \E name \in pending, ok \in BOOLEAN, env \in Env : ExecuteHandler(name, ok, env)
    \/ \E ok \in BOOLEAN : HandleCommand(ok)
    \/ \E w \in workers, env \in Env : RunHandler(w, env)

SpecUrl == InitUrl /\ [][NextUrl]_vars

\* The text holds http:// or https:// followed by a character that is not
\* whitespace, anywhere in it.
ContainsUrl(text) ==
    \E i \in 1..Len(text), scheme \in {Http, Https} :
        /\ i + Len(scheme) <= Len(text)
        /\ SubSeq(text, i, i + Len(scheme) - 1) = scheme
        /\ ~IsWhitespace(text[i + Len(scheme)])

\* One of the whitespace-separated words of the text begins with http://
\* or https:// and goes on after it.
HasUrlWord(text) ==
    \E i \in 1..Len(SplitWhitespace(text)), scheme \in {Http, Https} :
        LET word == SplitWhitespace(text)[i]
        IN  StartsWith(word, scheme) /\ Len(word) > Len(scheme)

\* What execute_threaded does for the threads now waiting to run, whatever
\* comes from outside: at most one reply, and on a failed retrieval no
\* reply and the error as the return value.
ThreadedReplies ==
    \A w \in workers, env \in Env :
        (w.kind = "execute_threaded" /\ w.state = "spawned") =>
            LET r == execute_threaded(w.plugin, w.message, tells, env)
            IN  /\ r.sends <= 1
                /\ ~env.fetch_ok => (r.sends = 0 /\ r.ret = "Err")

\* A probe sends nothing, and a thread that returned an error has sent
\* nothing.
UrlStepSendsNothing ==
    /\ Len(executed') = Len(executed) + 1 => sent' = sent
    /\ \A w \in workers' \ workers :
          (w.state = "finished" /\ w.result = "Err") => sent' = sent

\* C32 as stated: execute returns RequiresThread exactly when the message
\* is a PRIVMSG whose content contains an http(s) URL and Done otherwise,
\* and never sends; execute_threaded sends at most one reply per message
\* and none when the title retrieval fails.
C32_UrlAnywhere ==
    [][/\ \A i \in 1..Len(executed') :
            executed'[i].status =
                IF /\ executed'[i].message.kind = "PRIVMSG"
                   /\ ContainsUrl(executed'[i].message.content)
                THEN "RequiresThread" ELSE "Done"
       /\ ThreadedReplies'
       /\ UrlStepSendsNothing]_vars

\* C32, amended: execute returns RequiresThread exactly when the message is
\* a PRIVMSG in which http:// or https://, at the start of the content or
\* right after whitespace, is followed by a non-whitespace character, and
\* Done otherwise (a URL inside a word is not seen); it never sends.
\* execute_threaded sends at most one reply per message and none when the
\* title retrieval fails, the error being returned.
C32_UrlWord ==
    [][/\ \A i \in 1..Len(executed') :
            executed'[i].status =
                IF /\ executed'[i].message.kind = "PRIVMSG"
                   /\ HasUrlWord(executed'[i].message.content)
                THEN "RequiresThread" ELSE "Done"
       /\ ThreadedReplies'
       /\ UrlStepSendsNothing]_vars

\* A title was sent for an earlier message, and the probe of a message
\* with a URL inside a word has returned Done.
C32_Witness ==
    /\ "execute_threaded" \in sent
    /\ \E i \in 1..Len(executed) :
          /\ executed[i].message.content = <<"x">> \o Http \o <<"x">>
          /\ executed[i].status = "Done"

\* The keys stored under a name.
Versions(db, name) == {k \in DOMAIN db : k[1] = name}

\* The add of thread t neither overlaps nor trails another add for its
\* name: every other thread has not started, is done with another name, or
\* is done having read a smaller count.
NoRival(t) ==
    \A u \in Adders \ {t} :
        \/ adders[u].pc = "idle"
        \/ /\ adders[u].pc = "done"
           /\ adders[u].name # adders[t].name \/ adders[u].count < adders[t].count

\* C33: factoid versions are contiguous. Whatever the interleaving of adds,
\* the indices stored under a name are exactly 0..n-1 for the n versions
\* stored; get without an index reads that n as count(name) and returns
\* the version at index n-1, which exists; and an add that does not overlap
\* another one succeeds and is that version.
C33_VersionsContiguous ==
    [][/\ \A name \in FactoidNames :
            {k[2] : k \in Versions(factoids', name)} =
                0..(Cardinality(Versions(factoids', name)) - 1)
       /\ (getter.pc = "count" /\ getter'.pc # "count") =>
            /\ getter'.count = Cardinality(Versions(factoids, getter.name))
            /\ getter'.pc = "done" <=> getter'.count = 0
       /\ (getter.pc = "get" /\ getter'.pc = "done") =>
            /\ getter'.result = "found"
            /\ getter'.content = factoids[<<getter.name, getter.count - 1>>]
       /\ \A t \in Adders :
            (adders[t].pc = "insert" /\ adders'[t].pc = "done" /\ NoRival(t)) =>
                /\ adders'[t].response = "Success"
                /\ factoids'[<<adders[t].name,
                               Cardinality(Versions(factoids', adders[t].name)) - 1>>] = t]_vars

\* Two adds for one name interleaved, the second overwriting the first; a
\* later add for the name went through alone, and get returned it.
C33_Witness ==
    /\ \E t \in Adders : adders[t].response = "Factoid was overwritten"
    /\ \A t \in Adders : adders[t].pc = "done" /\ adders[t].name = "f"
    /\ Cardinality(Versions(factoids, "f")) = 2
    /\ getter.pc = "done"
    /\ getter.result = "found"
    /\ getter.count = 2
    /\ getter.content = factoids[<<"f", 1>>]

\* ---------------------------------------------------------------------
\* Tell, step by step: send_tells on one thread, tell_command on another,
\* both going through the Mutex around the store.

\* How many tells the store holds at most.
MaxTells == 2

\* How many times send_tells is called.
MaxSendTells == 2

\* The nicknames send_tells is called for, the bot's own among them.
TellTriggers == {<<"A">>, <<"b">>, current_nickname}

\* The receivers and the messages of the tells given to tell_command.
TellReceivers == {<<"A">>, <<"b">>}
TellTexts == {<<"x">>, <<"y">>}

\* The elements of a sequence.
Range(s) == {s[i] : i \in 1..Len(s)}

\* The plausible slip: the guard of the store is dropped right after
\* get_tells, and delete_tells locks anew.
SendTellsStartUnlocked(receiver) ==
    /\ tell_run.pc \in {"idle", "returned"}
    /\ tell_run.runs < MaxSendTells
    /\ LET mine == get_tells(tells, ToLowercase(receiver))
           called == [tell_run EXCEPT !.receiver = receiver, !.batch = << >>,
                                      !.next = 0, !.delivered = << >>,
                                      !.runs = @ + 1]
       IN  IF current_nickname = receiver \/ mine = << >>
           THEN tell_run' = [called EXCEPT !.pc = "returned", !.ret = "Ok"]
           ELSE /\ tell_run.lock = "none"
                /\ tell_run' = [called EXCEPT !.pc = "sending", !.ret = "none",
                                              !.batch = mine]
    /\ UNCHANGED <<factoids, adders, tells, evaluated, getter, random_index>>
    /\ UNCHANGED <<connected, plugins>>
    /\ UNCHANGED bot_vars
    /\ UNCHANGED dispatch_vars
    /\ UNCHANGED env_vars

\* Tell::send_tells up to the loop: Ok at once for the bot's own nickname;
\* otherwise the lock is taken and kept, get_tells reads the tells of the
\* lowercased receiver, and NotFound returns Ok.
SendTellsStart(receiver) ==
    /\ tell_run.pc \in {"idle", "returned"}
    /\ tell_run.runs < MaxSendTells
    /\ LET called == [tell_run EXCEPT !.receiver = receiver, !.batch = << >>,
                                      !.next = 0, !.delivered = << >>,
                                      !.runs = @ + 1]
       IN  IF current_nickname = receiver
           THEN tell_run' = [called EXCEPT !.pc = "returned", !.ret = "Ok"]
           ELSE /\ tell_run.lock = "none"
                /\ LET mine == get_tells(tells, ToLowercase(receiver))
                   IN  tell_run' =
                           IF mine = << >>
                           THEN [called EXCEPT !.pc = "returned", !.ret = "Ok"]
                           ELSE [called EXCEPT !.pc = "sending", !.ret = "none",
                                               !.lock = "send_tells",
                                               !.batch = mine]
    /\ UNCHANGED <<factoids, adders, tells, evaluated, getter, random_index>>
    /\ UNCHANGED <<connected, plugins>>
    /\ UNCHANGED bot_vars
    /\ UNCHANGED dispatch_vars
    /\ UNCHANGED env_vars

\* The plausible slip: a failed send clears the receiver's tells before
\* the error is returned.
SendTellsSendDeleting(ok) ==
    /\ tell_run.pc = "sending"
    /\ tell_run.next < Len(tell_run.batch)
    /\ IF ok
       THEN /\ tell_run' = [tell_run EXCEPT
                               !.next = @ + 1,
                               !.delivered = Append(@, tell_run.batch[tell_run.next + 1])]
            /\ UNCHANGED tells
       ELSE /\ tell_run' = [tell_run EXCEPT
                               !.pc = "returned", !.ret = "Err", !.lock = "none",
                               !.told = @ \cup Range(tell_run.delivered)]
            /\ tells' = delete_tells(tells, ToLowercase(tell_run.receiver))
    /\ UNCHANGED <<factoids, adders, evaluated, getter, random_index>>
    /\ UNCHANGED <<connected, plugins>>
    /\ UNCHANGED bot_vars
    /\ UNCHANGED dispatch_vars
    /\ UNCHANGED env_vars

\* One turn of the loop of send_tells: the next tell goes out as a notice,
\* or the send fails and its error is returned with the ? operator, which
\* drops the guard and leaves the store as it is.
SendTellsSend(ok) ==
    /\ tell_run.pc = "sending"
    /\ tell_run.next < Len(tell_run.batch)
    /\ tell_run' =
           IF ok
           THEN [tell_run EXCEPT
                    !.next = @ + 1,
                    !.delivered = Append(@, tell_run.batch[tell_run.next + 1])]
           ELSE [tell_run EXCEPT
                    !.pc = "returned", !.ret = "Err", !.lock = "none",
                    !.told = @ \cup Range(tell_run.delivered)]
    /\ UNCHANGED <<factoids, adders, tells, evaluated, getter, random_index>>
    /\ UNCHANGED <<connected, plugins>>
    /\ UNCHANGED bot_vars
    /\ UNCHANGED dispatch_vars
    /\ UNCHANGED env_vars

\* After the loop: delete_tells for the lowercased receiver, Ok, and the
\* guard dropped at the end of the function.
SendTellsDelete ==
    /\ tell_run.pc = "sending"
    /\ tell_run.next = Len(tell_run.batch)
    /\ tells' = delete_tells(tells, ToLowercase(tell_run.receiver))
    /\ tell_run' = [tell_run EXCEPT
                       !.pc = "returned", !.ret = "Ok", !.lock = "none",
                       !.told = @ \cup Range(tell_run.delivered)]
    /\ UNCHANGED <<factoids, adders, evaluated, getter, random_index>>
    /\ UNCHANGED <<connected, plugins>>
    /\ UNCHANGED bot_vars
    /\ UNCHANGED dispatch_vars
    /\ UNCHANGED env_vars

\* Tell::tell_command on its thread, for a receiver who is not online: the
\* tell is built with the lowercased receiver, and the thread comes to the
\* lock.
TellCommandReach(receiver, text) ==
    /\ tell_run.inserting = << >>
    /\ Len(tells) < MaxTells
    /\ tell_run' = [tell_run EXCEPT
                       !.inserting = <<[sender |-> <<"c">>,
                                        receiver |-> ToLowercase(receiver),
                                        message |-> text]>>]
    /\ UNCHANGED <<factoids, adders, tells, evaluated, getter, random_index>>
    /\ UNCHANGED <<connected, plugins>>
    /\ UNCHANGED bot_vars
    /\ UNCHANGED dispatch_vars
    /\ UNCHANGED env_vars

\* try_lock!(self.tells).insert_tell(&tell): once the lock is free the
\* tell is stored, and the guard is dropped with the statement.
TellCommandInsert ==
    /\ tell_run.inserting # << >>
    /\ tell_run.lock = "none"
    /\ tells' = insert_tell(tells, tell_run.inserting[1])
    /\ tell_run' = [tell_run EXCEPT !.inserting = << >>]
    /\ UNCHANGED <<factoids, adders, evaluated, getter, random_index>>
    /\ UNCHANGED <<connected, plugins>>
    /\ UNCHANGED bot_vars
    /\ UNCHANGED dispatch_vars
    /\ UNCHANGED env_vars

InitTell == Connected(<<1>>, NoOptions)

NextTell ==
    \/ \E receiver \in TellTriggers : SendTellsStart(receiver)
    \/ \E ok \in BOOLEAN : SendTellsSend(ok)
    \/ SendTellsDelete
    \/ \E receiver \in TellReceivers, text \in TellTexts :
           TellCommandReach(receiver, text)
    \/ TellCommandInsert

SpecTell == InitTell /\ [][NextTell]_vars

\* send_tells is being called in this step.
SendTellsCalled == tell_run'.runs = tell_run.runs + 1

\* C34: send_tells deletes the tells of a receiver only after each of them
\* was sent: a step that takes a tell out of the store is the one after
\* the last send of the batch, and returns Ok. A failed send returns the
\* error with the store unchanged and every tell of the batch still in it,
\* so the next call for the receiver reads them all again. Called for the
\* bot's own nickname, send_tells returns Ok with nothing sent or deleted.
C34_DeleteAfterAllSent ==
    [][/\ (\E i \in 1..Len(tells) : Len(tells') < i \/ tells'[i] # tells[i]) =>
            /\ tell_run.pc = "sending"
            /\ tell_run.delivered = tell_run.batch
            /\ tell_run.delivered # << >>
            /\ tell_run'.ret = "Ok"
       /\ (tell_run.pc = "sending" /\ tell_run'.ret = "Err") =>
            /\ tell_run'.pc = "returned"
            /\ tells' = tells
            /\ get_tells(tells', ToLowercase(tell_run.receiver)) = tell_run.batch
       /\ (SendTellsCalled /\ tell_run'.receiver # current_nickname) =>
            /\ tell_run'.batch = get_tells(tells, ToLowercase(tell_run'.receiver))
            /\ tell_run'.delivered = << >>
            /\ tells' = tells
       /\ (SendTellsCalled /\ tell_run'.receiver = current_nickname) =>
            /\ tell_run'.pc = "returned"
            /\ tell_run'.ret = "Ok"
            /\ tell_run'.delivered = << >>
            /\ tells' = tells]_vars

\* The second call sent a tell that an earlier call had sent, then a send
\* failed: the error is returned and the tell sent twice is still stored.
C34_Witness ==
    /\ tell_run.runs = 2
    /\ tell_run.pc = "returned"
    /\ tell_run.ret = "Err"
    /\ tell_run.delivered # << >>
    /\ tell_run.delivered[1] \in tell_run.told
    /\ tell_run.delivered[1] \in Range(tells)
    /\ Len(tells) = 2

\* C35: a tell is never deleted without having been sent, whatever
\* tell_command does meanwhile. Every step leaves the store as it is, or
\* appends a tell to it, or is the return of send_tells with Ok that takes
\* out the receiver's tells, and those are exactly the tells the call has
\* sent; a tell that comes to the lock while send_tells sends waits, and
\* is stored once send_tells has returned.
C35_InsertedNeverLost ==
    [][/\ \/ tells' = tells
          \/ /\ Len(tells') = Len(tells) + 1
             /\ SubSeq(tells', 1, Len(tells)) = tells
          \/ /\ tell_run.pc = "sending"
             /\ tell_run'.pc = "returned"
             /\ tell_run'.ret = "Ok"
             /\ tells' = delete_tells(tells, ToLowercase(tell_run.receiver))
             /\ get_tells(tells, ToLowercase(tell_run.receiver)) = tell_run.delivered
       /\ (tell_run.pc = "sending" /\ tell_run.inserting # << >>) =>
             tell_run'.inserting = tell_run.inserting
       /\ (tell_run.inserting # << >> /\ tell_run'.inserting = << >>) =>
             /\ tell_run.pc # "sending"
             /\ tells' = Append(tells, tell_run.inserting[1])]_vars

\* send_tells has sent its whole batch and is about to delete it, while
\* tell_command waits for the lock with another tell for the same receiver.
C35_Witness ==
    /\ tell_run.pc = "sending"
    /\ tell_run.next = Len(tell_run.batch)
    /\ tell_run.inserting # << >>
    /\ tell_run.inserting[1].receiver = ToLowercase(tell_run.receiver)
    /\ tell_run.inserting[1] \notin Range(tell_run.batch)

\* ---------------------------------------------------------------------
\* RandomIndex of the quote plugin. Beside the fields of the struct the
\* record keeps what a caller sees: the last method called (op), the
\* Option the last get returned (got: empty for None), the count the list
\* was generated from, whether init was ever called, and whether get has
\* regenerated the list.

RANDOM_INDEX_SIZE == 64

\* The counts given to init and _update_count: negative, zero, below and
\* above RANDOM_INDEX_SIZE.
RandomCounts == {-1, 0, 2, 65}

\* The orders shuffle may leave 1..n in: as it was, reversed, or turned by
\* one place.
Shuffles(n) ==
    {[i \in 1..n |-> i], [i \in 1..n |-> n + 1 - i], [i \in 1..n |-> (i % n) + 1]}

\* The plausible slip: the range starts at 0.
generate_list_from_zero(cnt) ==
    IF cnt < 0 THEN {<< >>}
    ELSE {[i \in 1..(cnt + 1) |-> l[i] - 1] : l \in Shuffles(cnt + 1)}

\* RandomIndex::generate_list: (1..count + 1) collected and shuffled; the
\* lists it may return. The range is empty for a count below 1.
generate_list(cnt) ==
    IF cnt < 1 THEN {<< >>} ELSE Shuffles(cnt)

\* Vec::get with a 0-based index: None past the end.
vec_get(list, index) ==
    IF index < Len(list) THEN <<list[index + 1]>> ELSE << >>

RandomFrame ==
    /\ UNCHANGED <<factoids, adders, tells, evaluated, getter, tell_run>>
    /\ UNCHANGED <<connected, plugins>>
    /\ UNCHANGED bot_vars
    /\ UNCHANGED dispatch_vars
    /\ UNCHANGED env_vars

\* RandomIndex::init: while __initialized is false the list is generated
\* and count and list are assigned; the flag itself is not assigned.
RandomIndexInit(cnt) ==
    /\ IF ~random_index.initialized
       THEN \E list \in generate_list(cnt) :
                random_index' = [random_index EXCEPT
                                    !.count = cnt, !.list = list,
                                    !.generated = cnt,
                                    !.op = "init", !.init_called = TRUE]
       ELSE random_index' = [random_index EXCEPT
                                !.op = "init", !.init_called = TRUE]
    /\ RandomFrame

\* The plausible slip: the regenerated list is walked from its start.
RandomIndexGetReset ==
    /\ IF random_index.local_index >= RANDOM_INDEX_SIZE
       THEN \E list \in generate_list(random_index.count) :
                random_index' = [random_index EXCEPT
                                    !.list = list,
                                    !.generated = random_index.count,
                                    !.local_index = 0,
                                    !.regenerated = TRUE,
                                    !.got = vec_get(list, 0),
                                    !.op = "get"]
       ELSE random_index' = [random_index EXCEPT
                                !.local_index = @ + 1,
                                !.got = vec_get(random_index.list,
                                                random_index.local_index + 1),
                                !.op = "get"]
    /\ RandomFrame

\* RandomIndex::get: at RANDOM_INDEX_SIZE the list is generated anew and
\* local_index += 0; below it local_index += 1; then list.get(local_index).
RandomIndexGet ==
    /\ IF random_index.local_index >= RANDOM_INDEX_SIZE
       THEN \E list \in generate_list(random_index.count) :
                random_index' = [random_index EXCEPT
                                    !.list = list,
                                    !.generated = random_index.count,
                                    !.local_index = @ + 0,
                                    !.regenerated = TRUE,
                                    !.got = vec_get(list, random_index.local_index + 0),
                                    !.op = "get"]
       ELSE random_index' = [random_index EXCEPT
                                !.local_index = @ + 1,
                                !.got = vec_get(random_index.list,
                                                random_index.local_index + 1),
                                !.op = "get"]
    /\ RandomFrame

\* RandomIndex::_update_count
RandomIndexUpdateCount(new_count) ==
    /\ random_index' = [random_index EXCEPT !.count = new_count,
                                            !.op = "update_count"]
    /\ RandomFrame

\* RandomIndex::_force_shuffle
RandomIndexForceShuffle ==
    /\ \E list \in generate_list(random_index.count) :
           random_index' = [random_index EXCEPT
                               !.list = list,
                               !.generated = random_index.count,
                               !.op = "force_shuffle"]
    /\ RandomFrame

InitRandom == Connected(<<1>>, NoOptions)

NextRandom ==
    \/ \E cnt \in RandomCounts : RandomIndexInit(cnt)
    \/ RandomIndexGet
    \/ \E new_count \in RandomCounts : RandomIndexUpdateCount(new_count)
    \/ RandomIndexForceShuffle

SpecRandom == InitRandom /\ [][NextRandom]_vars

\* The list holds each of 1..n once, and nothing else.
IsPermutation(list, n) ==
    /\ Len(list) = (IF n < 1 THEN 0 ELSE n)
    /\ \A v \in 1..n : \E i \in 1..Len(list) : list[i] = v

\* C36: after any sequence of init, get, _update_count and _force_shuffle,
\* local_index is at most RANDOM_INDEX_SIZE, the list is a permutation of
\* 1..count for the count it was last generated from, the value the last
\* get returned is in that range, and it was read at the position
\* local_index, which is never position 0.
C36_RandomIndexInvariants ==
    /\ random_index.local_index \in 0..RANDOM_INDEX_SIZE
    /\ IsPermutation(random_index.list, random_index.generated)
    /\ random_index.op = "get" =>
          /\ random_index.local_index >= 1
          /\ random_index.got = vec_get(random_index.list, random_index.local_index)
          /\ random_index.got # << >> =>
                /\ random_index.got[1] \in 1..random_index.generated
                /\ random_index.got[1] # random_index.list[1]

\* get has returned a value from a list generated for a count that
\* _update_count has replaced since.
C36_Witness ==
    /\ random_index.op = "get"
    /\ random_index.got # << >>
    /\ random_index.local_index \in 2..(RANDOM_INDEX_SIZE - 1)
    /\ random_index.generated = 65
    /\ random_index.count = 2

C38_ExhaustedStaysExhausted ==
    [][random_index.local_index = RANDOM_INDEX_SIZE =>
          /\ random_index'.local_index = RANDOM_INDEX_SIZE
          /\ (random_index'.op = "get" /\ random_index' # random_index) =>
                /\ random_index'.list \in generate_list(random_index.count)
                /\ random_index'.generated = random_index.count
                /\ random_index'.got =
                       vec_get(random_index'.list, RANDOM_INDEX_SIZE)
                /\ random_index.count <= RANDOM_INDEX_SIZE =>
                       random_index'.got = << >>]_vars

\* At RANDOM_INDEX_SIZE a get has regenerated a list of more than
\* RANDOM_INDEX_SIZE values and returned the one at that position; the
\* index has not moved.
C38_Witness ==
    /\ random_index.regenerated
    /\ random_index.op = "get"
    /\ random_index.local_index = RANDOM_INDEX_SIZE
    /\ random_index.count = 65
    /\ random_index.got = <<random_index.list[RANDOM_INDEX_SIZE + 1]>>

====
